---- MODULE Spec2Model ----
(***************************************************************************)
(* skills-sync: the reconciliation engine (skillssync-core/src/engine.rs)  *)
(* and the desktop shell's runtime (skillssync-desktop/src-tauri/main.rs). *)
(*                                                                         *)
(* Two specifications share this module.                                   *)
(*   Spec      the engine: the filesystem under the well-known roots, the  *)
(*             managed-links manifests, state.json, and run_sync as one    *)
(*             atomic step (the sync mutex makes it so inside the process).*)
(*   SpecConc  the desktop runtime: command threads, the watcher thread,   *)
(*             the sync mutex and the filesystem-changes gate, with        *)
(*             run_sync split into its start and its end.                  *)
(***************************************************************************)
EXTENDS Integers, Sequences, FiniteSets, TLC

\* ------------------------------------------------------------------ bounds
\* How many edits the user makes to the filesystem outside the engine.
MaxUserEdits == 2
\* How many writes of the engine fail with an I/O error.
MaxFaults == 1
\* How many watcher threads can be alive at once.
MaxWatchers == 1
\* How many commands the webview has in flight at once.
MaxCommands == 2
\* Calls on the starred-skill preference, and edits around them, in one behaviour.
MaxStarSteps == 3
\* Length of the starred list found in a hand-edited settings file.
MaxStarred == 3
\* Events appended to the audit log in one behaviour.
MaxAppends == 4
\* Largest ring cap tried; 0 is tried too.
MaxCap == 2
\* Lifecycle mutator calls in one behaviour.
MaxCalls == 2
\* ~/.Trash holds <name>, <name>.1, ..., <name>.MaxTrash.
MaxTrash == 2
\* Registry calls and user edits of host files in one behaviour.
MaxMcpSteps == 3

\* ---------------------------------------------------------------- universe
\* One key per (kind, scope, workspace) group: the global skill k and the
\* global subagent k. No workspace is configured.
Groups == {"skill_global", "subagent_global"}
\* run_core_sync projects the skills, then the subagents.
ProjectionOrder == <<"skill_global", "subagent_global">>
\* run_core_sync resolves, and collects the conflicts of, the global skills,
\* then the global subagents.
ConflictOrder == <<"skill_global", "subagent_global">>
Kinds == {"skill", "subagent"}
KindOf(g) == IF g = "subagent_global" THEN "subagent" ELSE "skill"
\* The three roots of a group, by source priority (1 = preferred):
\* skills .claude/skills, .agents/skills, .codex/skills;
\* subagents .agents/subagents, .claude/agents, .cursor/agents.
Roots == {1, 2, 3}
Loc == Groups \X Roots
NoPath == <<"none", 0>>
Hashes == {"hA", "hB"}

\* What is on disk at <root>/<key> (skills) or <root>/<key>.md (subagents).
\* "pkg" is a real package (a directory holding SKILL.md, or a well-formed
\* subagent file) with its content hash; "other" is any other regular file
\* or directory; "link" is a symlink with its absolute destination.
Absent == [kind |-> "absent"]
Pkg(h) == [kind |-> "pkg", hash |-> h]
Other == [kind |-> "other"]
Link(to) == [kind |-> "link", to |-> to]
UserCells == {Absent, Other} \cup {Pkg(h) : h \in Hashes}
McpConfigs == {"none", "exa", "invalid"}
\* What the host configurations (~/.claude.json, ~/.claude/settings.local.json)
\* say about server exa: nothing, one definition, or two that differ.
McpHosts == {"none", "one", "differ"}

VARIABLES
  fs,            \* Loc -> cell
  manifest,      \* Kinds -> set of paths: .skill-sync-manifest.json, .subagent-sync-manifest.json
  stateFile,     \* state.json
  codexRegistry, \* the managed block of ~/.codex/config.toml: registered paths
  mcpConfig,     \* the central catalog block: no server, one server, or malformed TOML
  mcpHosts,      \* the host configurations' definitions of the server
  edits,         \* user edits made so far
  faults,        \* I/O faults injected so far
  lastOkListing, \* history: the listing of the most recent run that returned Ok
  lastRun        \* history: what the most recent run_sync read, did and returned

\* The desktop runtime (RuntimeState, WatchRuntime, the command and watcher threads).
VARIABLES
  gate,          \* allow_filesystem_changes
  sync_lock,     \* RuntimeState.sync_lock: the thread holding the guard, or "free"
  watch,         \* WatchRuntime: active, stop_tx, handle
  pc,            \* where each thread is
  op,            \* the command a command thread is serving
  local,         \* a command thread's watcher at hand: the one it spawned or joins
  stop_rx,       \* per watcher: a stop message is in its channel
  events,        \* per watcher: a filesystem event is in its stream
  pending_since, \* per watcher: "none", "fresh" (under 800 ms old) or "ripe"
  fsStamp,       \* the thread and the step that last wrote the filesystem
  view,          \* per thread: the stamp its run_sync found when it started
  ret,           \* per command: what its last call returned, "none" while in flight
  initial_sync,  \* per command: how the initial sync of its enable went
  audit,         \* the thread and status of the last audit event
  last_change    \* "fresh": a change event under 800 ms ago, else "ripe"

\* The lifecycle mutators (delete, archive, restore, make_global, rename) and
\* the places they move a skill between.
VARIABLES
  disk,          \* skill paths, the archive bundle, ~/.Trash, the shared sibling file
  lastCall,      \* history: what the most recent mutator call found, did and returned
  calls          \* mutator calls made so far

lifeVars == <<disk, lastCall, calls>>

\* The starred-skill preference kept in the app settings.
VARIABLES
  prefs,         \* ui_state.starred_skill_ids as stored in app-settings.json
  snapshot,      \* ids of state.skills in the state file; whether a conflict is on disk
  lastStar,      \* history: the most recent call on the preference and what it returned
  starSteps      \* calls and edits made so far

starVars == <<prefs, snapshot, lastStar, starSteps>>

\* The audit log store.
VARIABLES
  auditFile,     \* <runtime>/audit.log.json
  appended,      \* history: every event handed to append_event, in order
  cap,           \* max_events of this installation
  managed,       \* managed state of the previous successful snapshot
  lastAudit      \* history: the most recent run and what the log held before it

auditVars == <<auditFile, appended, cap, managed, lastAudit>>

\* The MCP registry: host documents, the central catalog, the write-plan manifest.
VARIABLES
  hostJson,      \* JSON host documents: ~/.claude.json, settings.local.json, <ws>/.mcp.json
  hostToml,      \* TOML files with managed blocks: central config, codex configs
  mcpManifest,   \* .mcp-sync-manifest.json: path -> locators (keys for codex paths)
  wsRoots,       \* the workspace has skill or agent roots of its own
  mcpRecorded,   \* history: per JSON location, the locators the last run appended
  everManaged,   \* history: locators some run has written to a claude JSON target
  lastMcp,       \* history: the most recent registry call, what it found and did
  mcpSteps       \* registry calls and user edits made so far

mcpVars == <<hostJson, hostToml, mcpManifest, wsRoots, mcpRecorded, everManaged, lastMcp, mcpSteps>>
sideVars == <<starVars, auditVars, mcpVars>>

runtimeVars == <<gate, sync_lock, watch, pc, op, local, stop_rx, events,
                 pending_since, fsStamp, view, ret, initial_sync, audit, last_change>>

engineVars == <<fs, manifest, stateFile, codexRegistry, mcpConfig, mcpHosts, edits, faults,
               lastOkListing, lastRun, lifeVars, sideVars>>

\* ------------------------------------------------------------ path helpers
RECURSIVE Follow(_, _, _)
Follow(f, p, fuel) ==
  IF f[p].kind = "link"
    THEN IF fuel = 0 THEN NoPath ELSE Follow(f, f[p].to, fuel - 1)
    ELSE IF f[p].kind = "absent" THEN NoPath ELSE p

\* fs::canonicalize resolves every symlink; on failure the path is kept.
standardized_path(f, p) ==
  LET r == Follow(f, p, Cardinality(Loc)) IN IF r = NoPath THEN p ELSE r

path_exists_or_symlink(f, p) == f[p].kind # "absent"

is_symlink(f, p) == f[p].kind = "link"

remove_path(f, p) == [f EXCEPT ![p] = Absent]

create_symlink(f, destination, target) == [f EXCEPT ![target] = Link(destination)]

\* ---------------------------------------------------- discovery, resolution
\* discover_dir_packages / discover_subagent_files walk a root without
\* following symlinks: only a real package directly under the root counts.
discover_packages(f, g) == {r \in Roots : f[<<g, r>>].kind = "pkg"}

source_priority(S) == CHOOSE r \in S : \A q \in S : r <= q

\* Variants of resolve_scope_candidates: one that elects the preferred
\* candidate whatever the hashes, one that reports every duplicated key.
resolve_ignoring_hashes(f, g) ==
  LET candidates == discover_packages(f, g)
  IN [conflict |-> FALSE,
      elected |-> IF candidates = {} THEN 0 ELSE source_priority(candidates)]

resolve_flagging_duplicates(f, g) ==
  LET candidates == discover_packages(f, g)
  IN IF Cardinality(candidates) > 1
       THEN [conflict |-> TRUE, elected |-> 0]
       ELSE [conflict |-> FALSE,
             elected |-> IF candidates = {} THEN 0 ELSE source_priority(candidates)]

resolve_scope_candidates(f, g) ==
  LET candidates == discover_packages(f, g)
      hashes == {f[<<g, r>>].hash : r \in candidates}
  IN IF Cardinality(hashes) > 1
       THEN [conflict |-> TRUE, elected |-> 0]
       ELSE [conflict |-> FALSE,
             elected |-> IF candidates = {} THEN 0 ELSE source_priority(candidates)]

\* ------------------------------------------------------------ projection
create_or_update_symlink(f, target, destination) ==
  IF path_exists_or_symlink(f, target)
    THEN IF is_symlink(f, target)
            /\ standardized_path(f, f[target].to) = standardized_path(f, destination)
           THEN f
           ELSE create_symlink(remove_path(f, target), destination, target)
    ELSE create_symlink(f, destination, target)

\* The path run_core_sync records in new_managed_links after linking target.
managed_link_entry(f, target) == standardized_path(f, target)

AllTargets ==
  [i \in 1..(Len(ProjectionOrder) * Cardinality(Roots)) |->
     <<ProjectionOrder[((i - 1) \div Cardinality(Roots)) + 1],
       ((i - 1) % Cardinality(Roots)) + 1>>]

\* The target loops of run_core_sync over the elected packages. failAt is
\* the target at which create_or_update_symlink returns an I/O error (none
\* when failAt = NoPath); the loop stops there with the disk untouched at
\* that target.
RECURSIVE project_links(_, _, _, _, _)
project_links(acc, targets, i, elected, failAt) ==
  IF i > Len(targets) \/ acc.failed
    THEN acc
    ELSE LET target == targets[i]
             g == target[1]
             canonical == <<g, elected[g]>>
         IN IF standardized_path(acc.fs, target) = standardized_path(acc.fs, canonical)
              THEN project_links(acc, targets, i + 1, elected, failAt)
              ELSE IF target = failAt
                THEN [acc EXCEPT !.failed = TRUE]
                ELSE LET linked == create_or_update_symlink(acc.fs, target, canonical)
                     IN project_links(
                          [acc EXCEPT !.fs = linked,
                                      !.new[KindOf(g)] = @ \cup {managed_link_entry(linked, target)}],
                          targets, i + 1, elected, failAt)

\* Variant of cleanup_stale_links without the is_symlink test.
cleanup_stale_paths(f, old_managed_links, new_managed_links) ==
  [p \in Loc |->
     IF p \in (old_managed_links \ new_managed_links) THEN Absent ELSE f[p]]

cleanup_stale_links(f, old_managed_links, new_managed_links) ==
  [p \in Loc |->
     IF p \in (old_managed_links \ new_managed_links) /\ is_symlink(f, p)
       THEN Absent
       ELSE f[p]]

\* ------------------------------------------------------------- snapshot
create_skill_entry(g, canonical) ==
  [id |-> g, canonical_source_path |-> canonical,
   target_paths |-> {<<g, r>> : r \in Roots}]

\* The records of the elected groups of one kind, in sort_entries order
\* (scope, then name).
entries_of(kind, elected) ==
  LET gs == SelectSeq(ProjectionOrder, LAMBDA g : KindOf(g) = kind /\ elected[g] # 0)
  IN [i \in 1..Len(gs) |-> create_skill_entry(gs[i], <<gs[i], elected[gs[i]]>>)]

TopCount == 6

top_ids(entries) ==
  [i \in 1..(IF Len(entries) < TopCount THEN Len(entries) ELSE TopCount) |-> entries[i].id]

EmptyState ==
  [status |-> "unknown", error |-> "none",
   skills |-> <<>>, subagents |-> <<>>, mcp_servers |-> {}, warnings |-> {},
   top_skills |-> <<>>, top_subagents |-> <<>>,
   conflict_count |-> 0, subagent_conflict_count |-> 0]

make_state(entries, subagent_entries, mcp_outcome) ==
  [status |-> "ok", error |-> "none",
   skills |-> entries, subagents |-> subagent_entries,
   mcp_servers |-> mcp_outcome.records, warnings |-> mcp_outcome.warnings,
   top_skills |-> top_ids(entries), top_subagents |-> top_ids(subagent_entries),
   conflict_count |-> 0, subagent_conflict_count |-> 0]

\* Variant of make_failed_state that starts from an empty listing.
make_failed_state_empty(previous, error, skill_conflict_count, subagent_conflict_count) ==
  [EmptyState EXCEPT !.status = "failed", !.error = error,
                     !.conflict_count = skill_conflict_count,
                     !.subagent_conflict_count = subagent_conflict_count]

make_failed_state(previous, error, skill_conflict_count, subagent_conflict_count) ==
  [status |-> "failed", error |-> error,
   skills |-> previous.skills, subagents |-> previous.subagents,
   mcp_servers |-> previous.mcp_servers, warnings |-> previous.warnings,
   top_skills |-> previous.top_skills, top_subagents |-> previous.top_subagents,
   conflict_count |-> skill_conflict_count,
   subagent_conflict_count |-> subagent_conflict_count]

Listing(st) ==
  [skills |-> st.skills, subagents |-> st.subagents, mcp_servers |-> st.mcp_servers,
   top_skills |-> st.top_skills, top_subagents |-> st.top_subagents]

\* --------------------------------------------------------- run_core_sync
\* fault names the write that fails with an I/O error in this run ("none":
\* every write succeeds).
Faults == {"none", "link", "skill_manifest", "subagent_manifest",
           "codex_registry", "state_write"}

\* run_core_sync from the projection on, given the conflicts found and the
\* root of each group's canonical package.
project_and_clean(f, man, failAt, fault, conflicts, elected) ==
  LET targets == SelectSeq(AllTargets, LAMBDA t : elected[t[1]] # 0)
      acc == project_links([fs |-> f, new |-> [k \in Kinds |-> {}], failed |-> FALSE],
                           targets, 1, elected, failAt)
      skills_cleaned == cleanup_stale_links(acc.fs, man["skill"], acc.new["skill"])
      all_cleaned == cleanup_stale_links(skills_cleaned, man["subagent"], acc.new["subagent"])
      early == [ok |-> FALSE, error |-> "io", fs |-> f, manifest |-> man,
                conflicts |-> conflicts, elected |-> elected, mid |-> f,
                new |-> [k \in Kinds |-> {}], cleaned |-> {}]
  IN IF conflicts # <<>>
       THEN [early EXCEPT !.error = "conflicts"]
       ELSE IF acc.failed
         THEN [early EXCEPT !.fs = acc.fs, !.mid = acc.fs, !.new = acc.new]
         ELSE IF fault = "skill_manifest"
           THEN [early EXCEPT !.fs = skills_cleaned, !.mid = acc.fs, !.new = acc.new,
                              !.cleaned = {"skill"}]
           ELSE IF fault = "subagent_manifest"
             THEN [early EXCEPT !.fs = all_cleaned, !.mid = acc.fs, !.new = acc.new,
                                !.cleaned = Kinds,
                                !.manifest = [man EXCEPT !["skill"] = acc.new["skill"]]]
             ELSE [early EXCEPT !.ok = TRUE, !.error = "none",
                                !.fs = all_cleaned, !.mid = acc.fs, !.new = acc.new,
                                !.cleaned = Kinds, !.manifest = acc.new]

run_core_sync(f, man, failAt, fault) ==
  LET resolved == [g \in Groups |-> resolve_scope_candidates(f, g)]
  IN project_and_clean(f, man, failAt, fault,
                       SelectSeq(ConflictOrder, LAMBDA g : resolved[g].conflict),
                       [g \in Groups |-> resolved[g].elected])

\* migrate_scope_candidates_to_claude over the global skills, whose hashes
\* agree once no conflict was found: the preferred candidate moves to
\* <root 1>/<key> unless the two paths resolve to the same place, and every
\* other candidate becomes a symlink to it. is_dir says whether anything else
\* found at the preferred path is a directory.
RECURSIVE link_options(_, _, _, _)
link_options(f, options, desired, r) ==
  IF r > Cardinality(Roots) THEN f
  ELSE LET canonical_path == <<desired[1], r>>
       IN link_options(
            IF \/ r \notin options
               \/ standardized_path(f, canonical_path) = standardized_path(f, desired)
               \/ ~path_exists_or_symlink(f, canonical_path)
            THEN f
            ELSE create_or_update_symlink(f, canonical_path, desired),
            options, desired, r + 1)

migrate_scope_candidates_to_claude(f, g, is_dir) ==
  LET options == discover_packages(f, g)
      desired == <<g, 1>>
      selected_path == <<g, source_priority(options)>>
      moves == /\ standardized_path(f, selected_path) # standardized_path(f, desired)
               /\ path_exists_or_symlink(f, selected_path)
  IN IF options = {} THEN [ok |-> TRUE, fs |-> f]
     ELSE IF moves /\ path_exists_or_symlink(f, desired) /\ ~is_symlink(f, desired) /\ ~is_dir
       THEN [ok |-> FALSE, fs |-> f]
       ELSE [ok |-> TRUE,
             fs |-> link_options(
                      IF moves
                      THEN [f EXCEPT ![desired] = f[selected_path], ![selected_path] = Absent]
                      ELSE f,
                      options, desired, 1)]

\* run_core_sync with auto_migrate_to_canonical_source set: the conflicts come
\* first; the migrated skills are canonical at the preferred path.
run_core_sync_migrating(f, man, failAt, fault, is_dir) ==
  LET resolved == [g \in Groups |-> resolve_scope_candidates(f, g)]
      conflicts == SelectSeq(ConflictOrder, LAMBDA g : resolved[g].conflict)
      migrated == migrate_scope_candidates_to_claude(f, "skill_global", is_dir)
      elected == [g \in Groups |->
                    IF g = "skill_global" /\ resolved[g].elected # 0 THEN 1
                    ELSE resolved[g].elected]
  IN IF conflicts # <<>> THEN project_and_clean(f, man, failAt, fault, conflicts, elected)
     ELSE IF ~migrated.ok
       THEN [ok |-> FALSE, error |-> "migration_failed", fs |-> f, manifest |-> man,
             conflicts |-> conflicts, elected |-> elected, mid |-> f,
             new |-> [k \in Kinds |-> {}], cleaned |-> {}]
       ELSE project_and_clean(migrated.fs, man, failAt, fault, conflicts, elected)

\* ------------------------------------------------------------- registries
\* write_managed_registry: one entry per skill record, at its .agents/skills
\* target path.
build_entries(entries) == {<<entries[i].id, 2>> : i \in 1..Len(entries)}

\* McpRegistry::sync: the catalog it reads, or the error it returns when the
\* managed block of the central config is not valid TOML.
load_central_catalog(mcp) ==
  IF mcp = "invalid"
    THEN [ok |-> FALSE, servers |-> {}]
    ELSE [ok |-> TRUE, servers |-> IF mcp = "none" THEN {} ELSE {mcp}]

\* bootstrap_catalog: the catalog built from the host configurations when the
\* central one is empty; definitions that differ are reported once, here.
bootstrap_catalog(hosts) ==
  [servers |-> IF hosts = "none" THEN {} ELSE {"exa"},
   warnings |-> IF hosts = "differ" THEN {"definition_conflict"} ELSE {}]

\* McpRegistry::sync: load the central catalog, bootstrap it when empty, write
\* it back, and return the records with the warnings of this run.
mcp_sync(mcp, hosts) ==
  LET loaded == load_central_catalog(mcp)
      catalog == IF loaded.servers = {}
                   THEN bootstrap_catalog(hosts)
                   ELSE [servers |-> loaded.servers, warnings |-> {}]
  IN [ok |-> loaded.ok, records |-> catalog.servers, warnings |-> catalog.warnings,
      mcpConfig |-> IF loaded.ok /\ catalog.servers # {} THEN "exa" ELSE mcp]

conflict_count(conflicts, kind) ==
  Len(SelectSeq(conflicts, LAMBDA g : KindOf(g) = kind))

\* ----------------------------------------------------------------- run_sync
\* The persistent files one run writes, in the order of the writes:
\* run_core_sync saves the two managed-links manifests before it returns;
\* run_sync then writes the codex registry, runs McpRegistry::sync and saves
\* the state. A write that fails ends the Ok arm; the Err arm saves the
\* failed state.
core_writes(core) ==
  IF core.ok THEN <<"skill_manifest", "subagent_manifest">>
  ELSE IF core.cleaned = Kinds THEN <<"skill_manifest">> ELSE <<>>
state_write(fault) == IF fault = "state_write" THEN <<>> ELSE <<"state">>
writes_in_order(core, mcp_ok, fault) ==
  core_writes(core) \o
    (IF ~core.ok THEN state_write(fault)
     ELSE IF fault = "codex_registry" THEN <<>>
     ELSE <<"codex_registry">> \o
            (IF ~mcp_ok THEN <<>> ELSE <<"mcp_registry">> \o state_write(fault)))

\* run_sync after run_core_sync has returned core.
finish_sync(core, st, codex, mcp, hosts, fault) ==
  LET previous_state == st
      entries == entries_of("skill", core.elected)
      subagent_entries == entries_of("subagent", core.elected)
      mcp_outcome == mcp_sync(mcp, hosts)
      out == [result |-> "ok", fs |-> core.fs, manifest |-> core.manifest,
              stateFile |-> st, codexRegistry |-> codex, mcpConfig |-> mcp,
              core |-> core, writes |-> writes_in_order(core, mcp_outcome.ok, fault)]
  IN IF core.ok
       THEN IF fault = "codex_registry"
         THEN [out EXCEPT !.result = "codex_registry_write_failed"]
         ELSE IF ~mcp_outcome.ok
           THEN [out EXCEPT !.result = "unsupported",
                            !.codexRegistry = build_entries(entries)]
           ELSE IF fault = "state_write"
             THEN [out EXCEPT !.result = "io",
                              !.codexRegistry = build_entries(entries),
                              !.mcpConfig = mcp_outcome.mcpConfig]
             ELSE [out EXCEPT !.codexRegistry = build_entries(entries),
                              !.mcpConfig = mcp_outcome.mcpConfig,
                              !.stateFile = make_state(entries, subagent_entries,
                                                       mcp_outcome)]
       ELSE LET failed == make_failed_state(previous_state, core.error,
                                            conflict_count(core.conflicts, "skill"),
                                            conflict_count(core.conflicts, "subagent"))
            IN [out EXCEPT !.result = core.error,
                           !.stateFile = IF fault = "state_write" THEN st ELSE failed]

run_sync(f, man, st, codex, mcp, hosts, failAt, fault) ==
  finish_sync(run_core_sync(f, man, failAt, fault), st, codex, mcp, hosts, fault)

run_sync_migrating(f, man, st, codex, mcp, hosts, failAt, fault, is_dir) ==
  finish_sync(run_core_sync_migrating(f, man, failAt, fault, is_dir), st, codex, mcp, hosts,
              fault)

\* ------------------------------------------------- the lifecycle mutators
\* Skills roots: ~/.claude/skills, ~/.agents/skills, ~/.codex/skills and
\* <workspace>/.claude/skills; a skill path is <root>/<key>.
LifeRoots == {"claude", "agents", "codex", "project"}
SkillKeys == {"k", "n"}
SkillPaths == LifeRoots \X SkillKeys
PathOrder ==
  << <<"claude", "k">>, <<"claude", "n">>, <<"agents", "k">>, <<"agents", "n">>,
     <<"codex", "k">>, <<"codex", "n">>, <<"project", "k">>, <<"project", "n">> >>
\* <runtime>/archives/<bundle>/source
BundleSource == <<"bundle", "source">>
Titles == {"K", "N", " "}

\* A skill directory: the title in SKILL.md's front matter; whether the
\* directory holds ref.md, a relative symlink to ../shared.md; whether
\* SKILL.md can be read as text and written.
SkillDir(title, rel_link, skill_md_ok) ==
  [kind |-> "dir", title |-> title, rel_link |-> rel_link, skill_md_ok |-> skill_md_ok]
NoManifest == [kind |-> "none"]
NoBundle == [kind |-> "bundle", made |-> FALSE, source |-> Absent, links |-> {},
             manifest |-> NoManifest]

normalized_skill_key(title) ==
  CASE title = "K" -> "k"
    [] title = "N" -> "n"
    [] OTHER -> ""

preferred_global_destination(skill_key) == <<"claude", skill_key>>

\* What is at a path, and the disk with a path's content replaced.
cell_at(d, path) ==
  IF path = BundleSource THEN d.bundle.source ELSE d.paths[path]
put_cell(d, path, cell) ==
  IF path = BundleSource THEN [d EXCEPT !.bundle.source = cell]
  ELSE [d EXCEPT !.paths[path] = cell]

\* hash_directory: the relative names and bytes of the files; a symlink in
\* the directory contributes the bytes of what it resolves to from where the
\* directory lives, or the broken-symlink marker.
hash_directory(d, path) ==
  LET cell == cell_at(d, path) IN
  IF cell.kind # "dir" THEN "none"
  ELSE [title |-> cell.title, skill_md_ok |-> cell.skill_md_ok,
        link |-> IF ~cell.rel_link THEN "no-link"
                 ELSE IF path # BundleSource /\ path[1] \in d.shared THEN "shared-bytes"
                 ELSE "<broken-symlink>"]

\* The snapshot's record of an active skill at a path, and of the archived one.
ActiveRecord(d, path) ==
  [status |-> "active", skill_key |-> path[2],
   scope |-> IF path[1] = "project" THEN "project" ELSE "global",
   canonical_source_path |-> path,
   target_paths |-> SelectSeq(PathOrder, LAMBDA q : d.paths[q] = Link(path))]
load_archived_entries(d) ==
  IF ~d.bundle.made \/ d.bundle.manifest = NoManifest THEN {}
  ELSE {[status |-> "archived", skill_key |-> d.bundle.manifest.skill_key,
         scope |-> d.bundle.manifest.original_scope,
         canonical_source_path |-> BundleSource,
         target_paths |-> d.bundle.manifest.moved_links]}

Outcome(d, result, fired) == [disk |-> d, result |-> result, fired |-> fired]

\* A sanitizer that keeps every stored id of the snapshot, repeats included.
RECURSIVE sanitize_keeping_repeats(_, _, _)
sanitize_keeping_repeats(allowed, starred, ids) ==
  IF starred = <<>> THEN ids
  ELSE sanitize_keeping_repeats(allowed, Tail(starred),
         IF Head(starred) \in allowed THEN Append(ids, Head(starred)) ELSE ids)

\* A move_to_trash that takes <name> whatever is there.
first_trash_slot(trash, base_name, index) == index

\* move_to_trash: the first free of <name>, <name>.1, <name>.2, ...
RECURSIVE free_trash_slot(_, _, _)
free_trash_slot(trash, base_name, index) ==
  IF index > MaxTrash THEN index
  ELSE IF trash[base_name][index] = Absent THEN index
  ELSE free_trash_slot(trash, base_name, index + 1)

move_to_trash(d, target, failAt) ==
  LET bundle == target = "bundle"
      base_name == IF bundle THEN "bundle" ELSE target[2]
      payload == IF bundle THEN d.bundle ELSE cell_at(d, target)
      destination == free_trash_slot(d.trash, base_name, 0)
      gone == IF bundle THEN [d EXCEPT !.bundle = NoBundle] ELSE put_cell(d, target, Absent)
  IN IF failAt = "rename" THEN Outcome(d, "io", TRUE)
     ELSE Outcome([gone EXCEPT !.trash[base_name][destination] = payload], "ok", FALSE)

delete(d, skill, confirmed, failAt) ==
  LET archived == skill.status = "archived"
      exists == IF archived THEN d.bundle.made
                ELSE cell_at(d, skill.canonical_source_path) # Absent
  IN IF ~confirmed THEN Outcome(d, "DeleteRequiresConfirmation", FALSE)
     ELSE IF ~exists THEN Outcome(d, "DeletionTargetMissing", FALSE)
     ELSE move_to_trash(d, IF archived THEN "bundle" ELSE skill.canonical_source_path,
                        failAt)

\* archive's loop over the record's target paths: each one that is a symlink
\* is renamed into <bundle>/links; failN counts the renames up to the one
\* that fails (0: none fails).
RECURSIVE move_links(_, _, _, _)
move_links(paths, targets, moved, failN) ==
  IF targets = <<>> THEN [paths |-> paths, moved |-> moved, ok |-> TRUE]
  ELSE IF paths[Head(targets)].kind # "link"
    THEN move_links(paths, Tail(targets), moved, failN)
  ELSE IF failN = 1 THEN [paths |-> paths, moved |-> moved, ok |-> FALSE]
  ELSE move_links([paths EXCEPT ![Head(targets)] = Absent], Tail(targets),
                  Append(moved, Head(targets)), IF failN = 0 THEN 0 ELSE failN - 1)

archive(d, skill, confirmed, failAt) ==
  LET source == skill.canonical_source_path
      made == [d EXCEPT !.bundle = [NoBundle EXCEPT !.made = TRUE]]
      taken == put_cell([made EXCEPT !.bundle.source = cell_at(d, source)], source, Absent)
      failN == CASE failAt = "rename_link_1" -> 1
                 [] failAt = "rename_link_2" -> 2
                 [] OTHER -> 0
      links == move_links(taken.paths, skill.target_paths, <<>>, failN)
      linked == [taken EXCEPT !.paths = links.paths,
                              !.bundle.links = {links.moved[i] : i \in DOMAIN links.moved}]
      archived_manifest == [kind |-> "manifest", skill_key |-> skill.skill_key,
                   original_scope |-> skill.scope,
                   original_canonical_source_path |-> source,
                   moved_links |-> links.moved]
  IN IF ~confirmed THEN Outcome(d, "ArchiveRequiresConfirmation", FALSE)
     ELSE IF skill.status # "active" THEN Outcome(d, "ArchiveOnlyForActiveSkill", FALSE)
     ELSE IF cell_at(d, source) = Absent THEN Outcome(d, "ArchiveSourceMissing", FALSE)
     ELSE IF failAt = "create_dir_all" THEN Outcome(d, "io", TRUE)
     ELSE IF failAt = "rename" THEN Outcome(made, "io", TRUE)
     ELSE IF ~links.ok THEN Outcome(linked, "io", TRUE)
     ELSE IF failAt = "write_manifest" THEN Outcome(linked, "ArchiveManifestWriteFailed", TRUE)
     ELSE Outcome([linked EXCEPT !.bundle.manifest = archived_manifest], "ok", FALSE)

restore(d, skill, confirmed, failAt) ==
  LET archived_manifest == d.bundle.manifest
      destination == preferred_global_destination(archived_manifest.skill_key)
      moved == put_cell([d EXCEPT !.bundle.source = Absent], destination, d.bundle.source)
  IN IF ~confirmed THEN Outcome(d, "RestoreRequiresConfirmation", FALSE)
     ELSE IF skill.status # "archived" THEN Outcome(d, "RestoreOnlyForArchivedSkill", FALSE)
     ELSE IF d.bundle.source = Absent THEN Outcome(d, "RestoreSourceMissing", FALSE)
     ELSE IF archived_manifest = NoManifest THEN Outcome(d, "RestoreManifestMissing", FALSE)
     ELSE IF cell_at(d, destination) # Absent THEN Outcome(d, "RestoreTargetExists", FALSE)
     ELSE IF failAt = "rename" THEN Outcome(d, "io", TRUE)
     ELSE IF failAt = "remove_dir_all" THEN Outcome(moved, "ok", TRUE)
     ELSE Outcome([moved EXCEPT !.bundle = NoBundle], "ok", FALSE)

make_global(d, skill, confirmed, failAt) ==
  LET source == skill.canonical_source_path
      destination == preferred_global_destination(skill.skill_key)
  IN IF ~confirmed THEN Outcome(d, "MakeGlobalRequiresConfirmation", FALSE)
     ELSE IF skill.scope # "project" THEN Outcome(d, "MakeGlobalOnlyForProject", FALSE)
     ELSE IF source = BundleSource THEN Outcome(d, "MakeGlobalOutsideAllowedRoots", FALSE)
     ELSE IF cell_at(d, source) = Absent THEN Outcome(d, "MakeGlobalSourceMissing", FALSE)
     ELSE IF cell_at(d, destination) # Absent THEN Outcome(d, "MakeGlobalTargetExists", FALSE)
     ELSE IF failAt = "rename" THEN Outcome(d, "io", TRUE)
     ELSE Outcome(put_cell(put_cell(d, source, Absent), destination, cell_at(d, source)),
                  "ok", FALSE)

\* update_skill_title reads SKILL.md as text and writes it back with the new
\* title; it fails when the file cannot be read as text or cannot be written.
update_skill_title(cell, new_title) ==
  IF cell.kind = "dir" /\ cell.skill_md_ok
  THEN [ok |-> TRUE, cell |-> [cell EXCEPT !.title = new_title]]
  ELSE [ok |-> FALSE, cell |-> cell]

rename(d, skill, new_title, failAt) ==
  LET new_key == normalized_skill_key(new_title)
      source == skill.canonical_source_path
      destination == IF skill.scope = "project" THEN <<"project", new_key>>
                     ELSE preferred_global_destination(new_key)
      moved == put_cell(put_cell(d, source, Absent), destination, cell_at(d, source))
      titled == update_skill_title(cell_at(moved, destination), new_title)
  IN IF new_key = "" THEN Outcome(d, "RenameRequiresNonEmptyTitle", FALSE)
     ELSE IF new_key = skill.skill_key THEN Outcome(d, "RenameNoOp", FALSE)
     ELSE IF cell_at(d, source) = Absent THEN Outcome(d, "RenameRequiresExistingSource", FALSE)
     ELSE IF source = destination THEN Outcome(d, "RenameNoOp", FALSE)
     ELSE IF cell_at(d, destination) # Absent
       THEN Outcome(d, "RenameConflictTargetExists", FALSE)
     ELSE IF failAt = "rename" THEN Outcome(d, "io", TRUE)
     ELSE IF ~titled.ok
       THEN IF failAt = "rename_back" THEN Outcome(moved, "title", TRUE)
            ELSE Outcome(d, "title", FALSE)
     ELSE Outcome(put_cell(moved, destination, titled.cell), "ok", FALSE)

LifeSteps == {"none", "create_dir_all", "rename", "rename_link_1", "rename_link_2",
              "write_manifest", "remove_dir_all", "rename_back"}
LifeOps == {"delete", "archive", "restore", "make_global", "rename"}

\* One mutator call: its operation, record, confirmation, title and fault.
Mutator(d, o, skill, confirmed, new_title, failAt) ==
  CASE o = "delete" -> delete(d, skill, confirmed, failAt)
    [] o = "archive" -> archive(d, skill, confirmed, failAt)
    [] o = "restore" -> restore(d, skill, confirmed, failAt)
    [] o = "make_global" -> make_global(d, skill, confirmed, failAt)
    [] o = "rename" -> rename(d, skill, new_title, failAt)

TrashNames == SkillKeys \cup {"bundle"}
EmptyDisk ==
  [paths |-> [p \in SkillPaths |-> Absent], bundle |-> NoBundle,
   trash |-> [b \in TrashNames |-> [i \in 0..MaxTrash |-> Absent]], shared |-> {}]
NoCall ==
  [op |-> "none", skill |-> ActiveRecord(EmptyDisk, <<"claude", "k">>), new_title |-> "K",
   failAt |-> "none", result |-> "none", pre |-> EmptyDisk, clean |-> EmptyDisk,
   before |-> [op |-> "none", result |-> "none", hash |-> "none"]]

\* No skill on disk and no mutator called.
LifeIdle ==
  /\ disk = EmptyDisk
  /\ lastCall = NoCall
  /\ calls = 0

\* One skill k (in ~/.claude/skills, ~/.agents/skills or the workspace), with
\* or without mirror symlinks to it in the other global roots; possibly other
\* skills already at ~/.claude/skills/k and ~/.claude/skills/n, the file
\* ~/.agents/skills/shared.md that the skill's ref.md points to, and an
\* earlier payload named k in ~/.Trash.
LifeInit ==
  \E s \in {"claude", "agents", "project"}, rel_link \in BOOLEAN, skill_md_ok \in BOOLEAN :
  \E mirrors \in {{}, {"claude", "agents", "codex"} \ {s}},
     occupied \in SUBSET {<<"claude", "k">>, <<"claude", "n">>},
     shared \in {{}, {"agents"}}, full \in {{}, {0}} :
    /\ s = "project" => mirrors = {}
    /\ shared # {} => rel_link
    /\ <<"claude", "k">> \in occupied => s # "claude" /\ "claude" \notin mirrors
    /\ disk = [paths |-> [p \in SkillPaths |->
                  CASE p = <<s, "k">> -> SkillDir("K", rel_link, skill_md_ok)
                    [] p # <<s, "k">> /\ p[2] = "k" /\ p[1] \in mirrors -> Link(<<s, "k">>)
                    [] p # <<s, "k">> /\ p \in occupied /\ ~(p[2] = "k" /\ p[1] \in mirrors)
                         -> SkillDir(IF p[2] = "k" THEN "K" ELSE "N", FALSE, TRUE)
                    [] OTHER -> Absent],
               bundle |-> NoBundle,
               trash |-> [b \in TrashNames |-> [i \in 0..MaxTrash |->
                             IF b = "k" /\ i \in full THEN Other ELSE Absent]],
               shared |-> shared]
    /\ lastCall = NoCall
    /\ calls = 0

\* ------------------------------------------------- starred-skill preference
\* Synthetic ids: skill_entry_id(scope, workspace, key), one workspace.
StarIds == {<<"global", "k">>, <<"global", "n">>, <<"project", "k">>}
skill_entry_id(scope, skill_key) == <<scope, skill_key>>
StarLists == UNION {[1..n -> StarIds] : n \in 0..MaxStarred}

\* sanitize_starred_skill_ids: the stored ids that belong to a skill of the
\* snapshot, each kept at its first occurrence.
RECURSIVE sanitize_starred_skill_ids(_, _, _)
sanitize_starred_skill_ids(allowed, starred, ids) ==
  IF starred = <<>> THEN ids
  ELSE sanitize_starred_skill_ids(allowed, Tail(starred),
         IF Head(starred) \in allowed /\ \A i \in DOMAIN ids : ids[i] # Head(starred)
         THEN Append(ids, Head(starred)) ELSE ids)

starred_skill_ids(skills, stored) == sanitize_starred_skill_ids(skills, stored, <<>>)

\* set_skill_starred: [ok, ret, prefs]; save_ok is whether save_settings succeeds.
set_skill_starred(skills, stored, skill_id, starred, save_ok) ==
  LET sane == starred_skill_ids(skills, stored)
      next == IF starred
              THEN IF \E i \in DOMAIN sane : sane[i] = skill_id THEN sane
                   ELSE Append(sane, skill_id)
              ELSE SelectSeq(sane, LAMBDA id : id # skill_id)
  IN IF skill_id \notin skills THEN [ok |-> TRUE, ret |-> sane, prefs |-> stored]
     ELSE IF ~save_ok THEN [ok |-> FALSE, ret |-> <<>>, prefs |-> stored]
     ELSE [ok |-> TRUE, ret |-> next, prefs |-> next]

\* migrate_starred_skill_id: the stored list with old_id mapped to new_id,
\* filtered by the new snapshot and deduplicated; untouched without old_id.
RECURSIVE migrate_ids(_, _, _, _, _)
migrate_ids(allowed, raw_starred, old_id, new_id, starred) ==
  IF raw_starred = <<>> THEN starred
  ELSE LET mapped == IF Head(raw_starred) = old_id THEN new_id ELSE Head(raw_starred)
       IN migrate_ids(allowed, Tail(raw_starred), old_id, new_id,
            IF mapped \in allowed /\ \A i \in DOMAIN starred : starred[i] # mapped
            THEN Append(starred, mapped) ELSE starred)
migrate_starred_skill_id(stored, old_id, new_id, skills) ==
  IF \A i \in DOMAIN stored : stored[i] # old_id THEN stored
  ELSE migrate_ids(skills, stored, old_id, new_id, <<>>)

NoStar ==
  [op |-> "none", id |-> <<"global", "k">>, new_id |-> <<"global", "k">>, starred |-> FALSE,
   ok |-> TRUE, ret |-> <<>>, pre |-> <<>>, skills |-> {}]
StarIdle ==
  /\ prefs = <<>>
  /\ snapshot = [skills |-> {}, conflict |-> FALSE]
  /\ lastStar = NoStar
  /\ starSteps = 0
\* ------------------------------------------------------------ the audit log
AuditStatuses == {"success", "failed", "blocked"}
NoFile == [kind |-> "missing"]
AuditLogPayload(list) == [kind |-> "payload", version |-> 1, events |-> list]

\* load_events: the payload's events; nothing when the file cannot be read or parsed.
load_events(file) == IF file.kind = "payload" THEN file.events ELSE <<>>

\* An append_event that makes room by refusing the new event.
append_event_drop_newest(file, event, max_events) ==
  LET pushed == Append(load_events(file), event)
  IN AuditLogPayload(IF max_events > 0 /\ Len(pushed) > max_events
                     THEN SubSeq(pushed, 1, max_events) ELSE pushed)

\* append_event: load, push, drain the oldest beyond max_events (0: no cap), save.
append_event(file, event, max_events) ==
  LET pushed == Append(load_events(file), event)
      drop_count == Len(pushed) - max_events
  IN AuditLogPayload(IF max_events > 0 /\ Len(pushed) > max_events
                     THEN SubSeq(pushed, drop_count + 1, Len(pushed)) ELSE pushed)

ManagedStates == {"empty", "m1", "m2"}
NoAudit == [op |-> "none", ok |-> TRUE, same |-> TRUE, before |-> 0]
AuditIdle ==
  /\ auditFile = NoFile
  /\ appended = <<>>
  /\ cap = MaxCap
  /\ managed = "empty"
  /\ lastAudit = NoAudit
\* ------------------------------------------------------- the MCP registry
\* One workspace and two server keys; a key of a host document that is not in
\* the catalog is a server the user added by hand.
Keys == {"k", "n"}
EntryIds == {"global", "project"} \X Keys
JsonPaths == {"claude_user", "claude_local", "ws_mcp"}
TomlPaths == {"central", "codex", "ws_codex"}
Locations == JsonPaths \X {"root", "project"}

\* A catalog entry; locator_for_entry of an entry is its id <<scope, server_key>>.
NoEntry == [present |-> FALSE, codex |-> FALSE, claude |-> FALSE, project |-> FALSE,
            target |-> "ws_mcp"]
EmptyCatalog == [id \in EntryIds |-> NoEntry]
Present(cat) == {id \in EntryIds : cat[id].present}

\* File texts are sequences of bytes: "a" a byte of the user's, "LF", "CR", and
\* one token per managed block, standing for its markers and all between them.
CentralBlock == "central_block"
CodexBlock == "mcp_codex_block"
SkillsBlock == "skills_block"
ManifestPaths == JsonPaths \cup {"codex", "ws_codex"}
NoToml == [exists |-> FALSE, text |-> <<>>, keys |-> {}, cat |-> EmptyCatalog]
NoTarget == [present |-> FALSE, items |-> {}]
NoJson == [exists |-> FALSE, root |-> {}, projects |-> FALSE, proj |-> {}, pretty |-> TRUE]

RECURSIVE replace_crlf(_)
replace_crlf(s) ==
  IF s = <<>> THEN <<>>
  ELSE IF Len(s) >= 2 /\ s[1] = "CR" /\ s[2] = "LF"
    THEN <<"LF">> \o replace_crlf(SubSeq(s, 3, Len(s)))
    ELSE <<s[1]>> \o replace_crlf(Tail(s))

RECURSIVE trim_start_matches(_)
trim_start_matches(s) ==
  IF s # <<>> /\ s[1] = "LF" THEN trim_start_matches(Tail(s)) ELSE s
RECURSIVE trim_end_matches(_)
trim_end_matches(s) ==
  IF s # <<>> /\ s[Len(s)] = "LF" THEN trim_end_matches(SubSeq(s, 1, Len(s) - 1)) ELSE s
trim_matches(s) == trim_end_matches(trim_start_matches(s))

\* str::find of a marker: the first position of the block, 0 when there is none.
find_marker(s, marker) ==
  IF \E i \in DOMAIN s : s[i] = marker
    THEN CHOOSE i \in DOMAIN s : s[i] = marker /\ \A j \in 1..(i - 1) : s[j] # marker
    ELSE 0

\* upsert_managed_block: the text with the block replaced or appended.
upsert_managed_block(current, marker) ==
  IF \A i \in DOMAIN current : current[i] \in {"LF", "CR"}
    THEN <<marker, "LF">>
    ELSE LET normalized == replace_crlf(current)
             begin_index == find_marker(normalized, marker)
             prefix == trim_matches(SubSeq(normalized, 1, begin_index - 1))
             suffix == trim_matches(SubSeq(normalized, begin_index + 1, Len(normalized)))
         IN IF begin_index > 0
              THEN (IF prefix = <<>> THEN <<>> ELSE prefix \o <<"LF", "LF">>)
                   \o <<marker>>
                   \o (IF suffix = <<>> THEN <<"LF">> ELSE <<"LF", "LF">> \o suffix \o <<"LF">>)
              ELSE trim_matches(normalized) \o <<"LF", "LF", marker, "LF">>

\* has_workspace_sync_roots: what makes the workspace a candidate of a run.
workspace_candidates(json, toml, roots) ==
  roots \/ json["ws_mcp"].exists \/ toml["ws_codex"].exists

Found(source, id, codex, claude, project) ==
  [source |-> source, id |-> id, codex |-> codex, claude |-> claude, project |-> project]

\* discover_all: the servers defined in the host files, each with the flags of its source.
discover_all(json, toml, candidate) ==
  {Found("CodexGlobal", <<"global", key>>, TRUE, FALSE, FALSE) : key \in toml["codex"].keys}
  \cup {Found("ClaudeUserGlobal", <<"global", key>>, FALSE, TRUE, FALSE) :
          key \in json["claude_user"].root}
  \cup {Found("ClaudeUserProject", <<"project", key>>, FALSE, TRUE, TRUE) :
          key \in json["claude_user"].proj}
  \cup {Found("ClaudeLocalGlobal", <<"global", key>>, FALSE, TRUE, FALSE) :
          key \in json["claude_local"].root}
  \cup (IF candidate
          THEN {Found("ProjectCodex", <<"project", key>>, TRUE, FALSE, TRUE) :
                  key \in toml["ws_codex"].keys}
               \cup {Found("ProjectClaude", <<"project", key>>, FALSE, TRUE, TRUE) :
                  key \in json["ws_mcp"].root}
          ELSE {})

\* bootstrap_catalog: one entry per discovered id, flags or-ed over its sources,
\* project forced off on global entries, target after the primary source.
bootstrap_entries(discovered) ==
  [id \in EntryIds |->
     LET items == {item \in discovered : item.id = id}
     IN IF items = {} THEN NoEntry
        ELSE [present |-> TRUE,
              codex |-> \E item \in items : item.codex,
              claude |-> \E item \in items : item.claude,
              project |-> id[1] # "global" /\ \E item \in items : item.project,
              target |-> IF (\E item \in items : item.source = "ClaudeUserProject")
                            /\ ~(\E item \in items : item.source = "ProjectClaude")
                           THEN "claude_user" ELSE "ws_mcp"]]

\* load_central_catalog: the entries of the central block; project is forced
\* off on global entries as they are read.
load_central_entries(file) ==
  IF file.exists /\ find_marker(file.text, CentralBlock) > 0
    THEN [id \in EntryIds |->
            IF id[1] = "global" THEN [file.cat[id] EXCEPT !.project = FALSE, !.target = "ws_mcp"]
            ELSE file.cat[id]]
    ELSE EmptyCatalog

\* was_previously_managed_claude_locator: the locator is listed under a .json
\* path of the manifest the previous run saved.
was_previously_managed_claude_locator(previous_manifest, locator) ==
  \E path \in JsonPaths : locator \in previous_manifest[path].items

\* reconcile_claude_enabled: the ids whose claude flag is switched on.
aligned_ids(cat, discovered, previous_manifest) ==
  {id \in Present(cat) :
     /\ \E item \in discovered : item.id = id /\ item.claude
     /\ ~cat[id].claude
     /\ ~was_previously_managed_claude_locator(previous_manifest, id)}
reconcile_claude_enabled(cat, discovered, previous_manifest) ==
  [id \in EntryIds |->
     IF id \in aligned_ids(cat, discovered, previous_manifest)
       THEN [cat[id] EXCEPT !.claude = TRUE] ELSE cat[id]]

\* write_central_catalog: upsert the rendered catalog; write only on a difference.
write_central_catalog(file, cat) ==
  LET updated == [exists |-> TRUE, text |-> upsert_managed_block(file.text, CentralBlock),
                  keys |-> {}, cat |-> cat]
  IN [file |-> updated, written |-> updated # file]

\* apply_codex_catalog_path: upsert the managed codex block with these keys.
apply_codex_catalog_path(file, definitions, create_when_missing) ==
  IF ~file.exists /\ ~create_when_missing
    THEN [file |-> file, keys |-> {}, written |-> FALSE]
    ELSE LET updated == [exists |-> TRUE,
                         text |-> upsert_managed_block(file.text, CodexBlock),
                         keys |-> definitions, cat |-> EmptyCatalog]
         IN [file |-> updated, keys |-> definitions, written |-> updated # file]

\* write_managed_registry: upsert the skills block and write the file, always.
write_managed_registry(file) ==
  [file |-> [file EXCEPT !.exists = TRUE,
                         !.text = upsert_managed_block(file.text, SkillsBlock)],
   written |-> TRUE]

\* locator_server_key, is_global_locator
locator_server_key(locator) == locator[2]
is_global_locator(locator) == locator[1] = "global"

\* filter_manifest_locators_for_location: global locators belong to the root
\* location, project locators to the project location of their workspace.
filter_manifest_locators_for_location(loc, locators) ==
  {locator \in locators : is_global_locator(locator) <=> loc = "root"}

\* group_locators_by_location: the locations a path's locators fall in; the
\* root location alone when there are none and the file exists.
group_locators_by_location(doc, locators) ==
  {loc \in {"root", "project"} : filter_manifest_locators_for_location(loc, locators) # {}}
  \cup (IF locators = {} /\ doc.exists THEN {"root"} ELSE {})

\* apply_json_catalog_path: in the location's mcpServers object, remove the keys
\* of the previous locators that are not planned, insert the planned ones,
\* render the document again and write it when the bytes differ.
apply_json_catalog_path(doc, loc, enabled_keys, previous_locators, create_when_missing) ==
  IF ~doc.exists /\ ~create_when_missing
    THEN [doc |-> doc, reached |-> FALSE, written |-> FALSE]
    ELSE LET mcp_servers == IF loc = "root" THEN doc.root ELSE doc.proj
             stale == {locator_server_key(locator) : locator \in previous_locators}
                      \ enabled_keys
             next_servers == (mcp_servers \ stale) \cup enabled_keys
             rendered == [exists |-> TRUE,
                          root |-> IF loc = "root" THEN next_servers ELSE doc.root,
                          projects |-> doc.projects \/ loc = "project",
                          proj |-> IF loc = "project" THEN next_servers ELSE doc.proj,
                          pretty |-> TRUE]
         IN [doc |-> rendered, reached |-> TRUE, written |-> rendered # doc]

\* effective_global_claude_target_path
effective_global_claude_target_path(json) ==
  IF json["claude_user"].exists THEN "claude_user" ELSE "claude_local"

\* The JSON write plans of a catalog: per location, the entries to write there.
json_plans(cat, global_claude_target) ==
  [L \in Locations |->
     {id \in Present(cat) :
        \/ id[1] = "global" /\ cat[id].claude /\ L = <<global_claude_target, "root">>
        \/ /\ id[1] = "project" /\ cat[id].project /\ cat[id].claude
           /\ L = IF cat[id].target = "ws_mcp" THEN <<"ws_mcp", "root">>
                  ELSE <<"claude_user", "project">>}]
create_when_missing(L) == L[1] # "ws_mcp"

LocOrder ==
  <<<<"claude_user", "root">>, <<"claude_local", "root">>, <<"ws_mcp", "root">>,
    <<"claude_user", "project">>, <<"claude_local", "project">>, <<"ws_mcp", "project">>>>

\* sync, the loop over the plans: skip a missing file that is not to be
\* created, else apply the plan and append its locators to the new manifest.
RECURSIVE apply_plans(_, _, _, _)
apply_plans(order, plans, previous_manifest, acc) ==
  IF order = <<>> THEN acc
  ELSE LET L == Head(order)
           previous_for_location ==
             filter_manifest_locators_for_location(L[2], previous_manifest[L[1]].items)
           out == apply_json_catalog_path(acc.json[L[1]], L[2],
                    {locator_server_key(id) : id \in plans[L]},
                    previous_for_location, create_when_missing(L))
       IN apply_plans(Tail(order), plans, previous_manifest,
            IF plans[L] = {} THEN acc
            ELSE IF ~acc.json[L[1]].exists /\ ~create_when_missing(L)
              THEN [acc EXCEPT !.skipped = @ \cup {L[1]}]
              ELSE [acc EXCEPT
                      !.json[L[1]] = out.doc,
                      !.manifest[L[1]] = [present |-> TRUE, items |-> @.items \cup plans[L]],
                      !.recorded[L] = plans[L],
                      !.touched = @ \cup {L},
                      !.rewritten = @ \cup {L},
                      !.written = @ \cup (IF out.written THEN {L[1]} ELSE {}),
                      !.same = @ \cup (IF out.written /\ out.doc = acc.json[L[1]]
                                         THEN {L[1]} ELSE {})])

\* sync, the loop over the previous manifest: clean the locations no plan touched.
RECURSIVE clean_untouched(_, _, _)
clean_untouched(order, previous_manifest, acc) ==
  IF order = <<>> THEN acc
  ELSE LET L == Head(order)
           locators == previous_manifest[L[1]].items
           out == apply_json_catalog_path(acc.json[L[1]], L[2], {},
                    filter_manifest_locators_for_location(L[2], locators), FALSE)
       IN clean_untouched(Tail(order), previous_manifest,
            IF /\ previous_manifest[L[1]].present
               /\ L[2] \in group_locators_by_location(acc.json[L[1]], locators)
               /\ L \notin acc.touched
              THEN [acc EXCEPT
                      !.json[L[1]] = out.doc,
                      !.rewritten = @ \cup (IF out.reached THEN {L} ELSE {}),
                      !.written = @ \cup (IF out.written THEN {L[1]} ELSE {}),
                      !.same = @ \cup (IF out.written /\ out.doc = acc.json[L[1]]
                                         THEN {L[1]} ELSE {})]
              ELSE acc)

CodexItems(keys) == {<<"codex", key>> : key \in keys}

\* sync, from the saving of the manifest on: what the run leaves and reports.
sync_outcome(toml, candidate, found, central, global_codex, plans, cleaned,
             project_codex_defs, project_codex, previous_manifest) ==
  LET project_written == candidate /\ toml["ws_codex"].exists
      project_skipped ==
        /\ candidate /\ ~toml["ws_codex"].exists
        /\ (project_codex_defs # {} \/ previous_manifest["ws_codex"].items # {})
  IN [json |-> cleaned.json,
      toml |-> [toml EXCEPT !["central"] = central.file,
                            !["codex"] = global_codex.file,
                            !["ws_codex"] = IF project_written THEN project_codex.file ELSE @],
      manifest |-> IF project_written
                     THEN [cleaned.manifest EXCEPT
                             !["ws_codex"] = [present |-> TRUE,
                                              items |-> CodexItems(project_codex.keys)]]
                     ELSE cleaned.manifest,
      recorded |-> cleaned.recorded,
      plans |-> plans,
      codex_plan |-> project_codex_defs,
      rewritten |-> cleaned.rewritten,
      written |-> cleaned.written
                  \cup (IF central.written THEN {"central"} ELSE {})
                  \cup (IF global_codex.written THEN {"codex"} ELSE {})
                  \cup (IF project_written /\ project_codex.written THEN {"ws_codex"} ELSE {}),
      same |-> cleaned.same
               \cup (IF central.written /\ central.file = toml["central"]
                       THEN {"central"} ELSE {})
               \cup (IF global_codex.written /\ global_codex.file = toml["codex"]
                       THEN {"codex"} ELSE {})
               \cup (IF project_written /\ project_codex.written
                          /\ project_codex.file = toml["ws_codex"]
                       THEN {"ws_codex"} ELSE {}),
      skipped |-> cleaned.skipped \cup (IF project_skipped THEN {"ws_codex"} ELSE {}),
      aligned |-> found.aligned,
      observed |-> found.observed,
      before |-> found.before,
      cat |-> found.cat]

\* sync, the JSON plans: apply them, then clean what the previous manifest
\* lists and no plan touched; then the workspace's codex config.
sync_targets(json, toml, candidate, found, central, global_codex, plans,
             project_codex_defs, previous_manifest) ==
  sync_outcome(toml, candidate, found, central, global_codex, plans,
    clean_untouched(LocOrder, previous_manifest,
      apply_plans(LocOrder, plans, previous_manifest,
        [json |-> json,
         manifest |-> [p \in ManifestPaths |->
                         IF p = "codex"
                           THEN [present |-> TRUE, items |-> CodexItems(global_codex.keys)]
                           ELSE NoTarget],
         recorded |-> [L \in Locations |-> {}],
         touched |-> {}, rewritten |-> {}, written |-> {}, same |-> {}, skipped |-> {}])),
    project_codex_defs,
    apply_codex_catalog_path(toml["ws_codex"], project_codex_defs, FALSE),
    previous_manifest)

\* sync, once the catalog of the run is settled: write it, then the targets.
sync_catalog(json, toml, candidate, found, previous_manifest) ==
  sync_targets(json, toml, candidate, found,
    write_central_catalog(toml["central"], found.cat),
    apply_codex_catalog_path(toml["codex"],
      {id[2] : id \in {e \in Present(found.cat) : e[1] = "global" /\ found.cat[e].codex}},
      TRUE),
    json_plans(found.cat, effective_global_claude_target_path(json)),
    {id[2] : id \in {e \in Present(found.cat) :
                       e[1] = "project" /\ found.cat[e].project /\ found.cat[e].codex}},
    previous_manifest)

\* The catalog of a run: loaded, bootstrapped when empty, then auto-aligned.
catalog_of_run(discovered, known, previous_manifest) ==
  [observed |-> {item.id : item \in {d \in discovered : d.claude}},
   before |-> known,
   aligned |-> aligned_ids(known, discovered, previous_manifest),
   cat |-> reconcile_claude_enabled(known, discovered, previous_manifest)]
known_catalog(discovered, loaded) ==
  IF Present(loaded) = {} THEN bootstrap_entries(discovered) ELSE loaded

\* McpRegistry::sync
sync_discovered(json, toml, candidate, discovered, previous_manifest) ==
  sync_catalog(json, toml, candidate,
    catalog_of_run(discovered,
      known_catalog(discovered, load_central_entries(toml["central"])),
      previous_manifest),
    previous_manifest)
sync(json, toml, previous_manifest, roots) ==
  sync_discovered(json, toml, workspace_candidates(json, toml, roots),
    discover_all(json, toml, workspace_candidates(json, toml, roots)),
    previous_manifest)

\* The catalog a set_enabled call works on, and the entries its filters match.
known_for_toggle(json, toml, roots) ==
  known_catalog(discover_all(json, toml, workspace_candidates(json, toml, roots)),
                load_central_entries(toml["central"]))
matching_ids(known, server_key, scope) ==
  {id \in Present(known) : id[2] = server_key /\ (scope = "any" \/ id[1] = scope)}
Rejected(result, toml) ==
  [result |-> result, id |-> <<"global", "k">>, toml |-> toml, written |-> FALSE]

\* A set_enabled that applies the project toggle to whatever entry it matched.
set_enabled_any_scope(json, toml, roots, server_key, agent, enabled, scope) ==
  LET known == known_for_toggle(json, toml, roots)
      matches == matching_ids(known, server_key, scope)
      id == CHOOSE m \in matches : TRUE
      toggled == [known[id] EXCEPT
                    !.codex = IF agent = "codex" THEN enabled ELSE @,
                    !.claude = IF agent = "claude" THEN enabled ELSE @,
                    !.project = IF agent = "project" THEN enabled ELSE @]
      central == write_central_catalog(toml["central"], [known EXCEPT ![id] = toggled])
  IN IF matches = {} THEN Rejected("not_found", toml)
     ELSE IF Cardinality(matches) > 1 THEN Rejected("ambiguous", toml)
       ELSE [result |-> "ok", id |-> id, toml |-> [toml EXCEPT !["central"] = central.file],
             written |-> central.written]

\* A set_enabled that settles an ambiguous key on one of the matching entries.
set_enabled_first_match(json, toml, roots, server_key, agent, enabled, scope) ==
  LET known == known_for_toggle(json, toml, roots)
      matches == matching_ids(known, server_key, scope)
      id == CHOOSE m \in matches : TRUE
      toggled == [known[id] EXCEPT
                    !.codex = IF agent = "codex" THEN enabled ELSE @,
                    !.claude = IF agent = "claude" THEN enabled ELSE @,
                    !.project = IF id[1] = "global" THEN FALSE
                                ELSE IF agent = "project" THEN enabled ELSE @]
      central == write_central_catalog(toml["central"], [known EXCEPT ![id] = toggled])
  IN IF matches = {} THEN Rejected("not_found", toml)
     ELSE IF id[1] = "global" /\ agent = "project"
         THEN [Rejected("unsupported", toml) EXCEPT !.id = id]
         ELSE [result |-> "ok", id |-> id, toml |-> [toml EXCEPT !["central"] = central.file],
               written |-> central.written]

\* McpRegistry::set_enabled
set_enabled(json, toml, roots, server_key, agent, enabled, scope) ==
  LET known == known_for_toggle(json, toml, roots)
      matches == matching_ids(known, server_key, scope)
      id == CHOOSE m \in matches : TRUE
      toggled == [known[id] EXCEPT
                    !.codex = IF agent = "codex" THEN enabled ELSE @,
                    !.claude = IF agent = "claude" THEN enabled ELSE @,
                    !.project = IF id[1] = "global" THEN FALSE
                                ELSE IF agent = "project" THEN enabled ELSE @]
      central == write_central_catalog(toml["central"], [known EXCEPT ![id] = toggled])
  IN IF matches = {} THEN Rejected("not_found", toml)
     ELSE IF Cardinality(matches) > 1 THEN Rejected("ambiguous", toml)
       ELSE IF id[1] = "global" /\ agent = "project"
         THEN [Rejected("unsupported", toml) EXCEPT !.id = id]
         ELSE [result |-> "ok", id |-> id, toml |-> [toml EXCEPT !["central"] = central.file],
               written |-> central.written]

NoMcp ==
  [op |-> "none", result |-> "none", edit |-> "none",
   json |-> [p \in JsonPaths |-> NoJson], toml |-> [p \in TomlPaths |-> NoToml],
   manifest |-> [p \in ManifestPaths |-> NoTarget],
   recorded |-> [L \in Locations |-> {}], managed |-> {},
   plans |-> [L \in Locations |-> {}], codex_plan |-> {},
   rewritten |-> {}, written |-> {}, same |-> {}, skipped |-> {}, aligned |-> {},
   observed |-> {},
   before |-> EmptyCatalog, cat |-> EmptyCatalog, candidate |-> FALSE,
   scope |-> "any", agent |-> "codex", id |-> <<"global", "k">>]
McpIdle ==
  /\ hostJson = [p \in JsonPaths |-> NoJson]
  /\ hostToml = [p \in TomlPaths |-> NoToml]
  /\ mcpManifest = [p \in ManifestPaths |-> NoTarget]
  /\ wsRoots = FALSE
  /\ mcpRecorded = [L \in Locations |-> {}]
  /\ everManaged = {}
  /\ lastMcp = NoMcp
  /\ mcpSteps = 0
SideIdle == StarIdle /\ AuditIdle /\ McpIdle

\* ------------------------------------------------------------------ actions
NoRun ==
  [result |-> "none", pre |-> [p \in Loc |-> Absent],
   mid |-> [p \in Loc |-> Absent], post |-> [p \in Loc |-> Absent],
   old |-> [k \in Kinds |-> {}], new |-> [k \in Kinds |-> {}], cleaned |-> {},
   conflicts |-> <<>>, elected |-> [g \in Groups |-> 0],
   previous |-> EmptyState, edits |-> 0, quiet |-> FALSE, writes |-> <<>>,
   auto_migrate |-> FALSE]

EngineInit ==
  /\ fs = [p \in Loc |-> Absent]
  /\ manifest = [k \in Kinds |-> {}]
  /\ stateFile = EmptyState
  /\ codexRegistry = {}
  /\ mcpConfig = "none"
  /\ mcpHosts = "none"
  /\ edits = 0
  /\ faults = 0
  /\ lastOkListing = Listing(EmptyState)
  /\ lastRun = NoRun

\* The user creates, replaces or removes something under a root.
UserEdit(p, c) ==
  /\ edits < MaxUserEdits
  /\ fs[p] # c
  /\ fs' = [fs EXCEPT ![p] = c]
  /\ edits' = edits + 1
  /\ UNCHANGED <<manifest, stateFile, codexRegistry, mcpConfig, mcpHosts, faults,
                 lastOkListing, lastRun>>
  /\ UNCHANGED runtimeVars
  /\ UNCHANGED lifeVars
  /\ UNCHANGED sideVars

\* The user edits the managed block of ~/.config/ai-agents/config.toml.
UserEditMcp(m) ==
  /\ edits < MaxUserEdits
  /\ mcpConfig # m
  /\ mcpConfig' = m
  /\ edits' = edits + 1
  /\ UNCHANGED <<fs, manifest, stateFile, codexRegistry, mcpHosts, faults,
                 lastOkListing, lastRun>>
  /\ UNCHANGED runtimeVars
  /\ UNCHANGED lifeVars
  /\ UNCHANGED sideVars

\* The user adds, changes or removes the server in the host configurations.
UserEditMcpHosts(h) ==
  /\ edits < MaxUserEdits
  /\ mcpHosts # h
  /\ mcpHosts' = h
  /\ edits' = edits + 1
  /\ UNCHANGED <<fs, manifest, stateFile, codexRegistry, mcpConfig, faults,
                 lastOkListing, lastRun>>
  /\ UNCHANGED runtimeVars
  /\ UNCHANGED lifeVars
  /\ UNCHANGED sideVars

\* One run_sync with the outcome out; auto_migrate is the preference the run
\* found in the settings file.
Reconciled(out, auto_migrate, fault) ==
  /\ fault # "none" => faults < MaxFaults
  /\ faults' = IF fault = "none" THEN faults ELSE faults + 1
  /\ \E o \in {out} :
     /\ fs' = o.fs
     /\ manifest' = o.manifest
     /\ stateFile' = o.stateFile
     /\ codexRegistry' = o.codexRegistry
     /\ mcpConfig' = o.mcpConfig
     /\ lastRun' = [result |-> o.result, pre |-> fs,
                    mid |-> o.core.mid, post |-> o.fs,
                    old |-> manifest, new |-> o.core.new,
                    cleaned |-> o.core.cleaned,
                    conflicts |-> o.core.conflicts, elected |-> o.core.elected,
                    previous |-> stateFile, edits |-> edits,
                    quiet |-> lastRun.result = "ok" /\ lastRun.edits = edits,
                    writes |-> o.writes, auto_migrate |-> auto_migrate]
     /\ lastOkListing' = IF o.result = "ok" THEN Listing(o.stateFile) ELSE lastOkListing
     /\ UNCHANGED <<mcpHosts, edits>>
     /\ UNCHANGED runtimeVars
     /\ UNCHANGED lifeVars
     /\ UNCHANGED sideVars
  /\ UNCHANGED sideVars

RunSync(failAt, fault) ==
  Reconciled(run_sync(fs, manifest, stateFile, codexRegistry, mcpConfig, mcpHosts,
                      failAt, fault), FALSE, fault)

RunSyncMigrating(is_dir) ==
  Reconciled(run_sync_migrating(fs, manifest, stateFile, codexRegistry, mcpConfig, mcpHosts,
                                NoPath, "none", is_dir), TRUE, "none")

\* ------------------------------------------------------ the desktop runtime
Cmds == {<<"cmd", i>> : i \in 1..MaxCommands}
Watchers == {<<"watcher", i>> : i \in 1..MaxWatchers}
Threads == Cmds \cup Watchers
NoThread == <<"none", 0>>
\* The commands: the run_sync command; a lifecycle mutator (delete_skill,
\* archive_skill, restore_skill, rename_skill, make_global,
\* set_mcp_server_enabled); set_allow_filesystem_changes(true / false).
Ops == {"run_sync", "mutator", "allow", "disallow"}

\* Mutex::lock returns once no other thread holds the guard.
lock_always(holder) == TRUE

lock_available(holder) == holder = NoThread

\* A mutator's guard lives to the end of the command: the thread still holds
\* the lock when the engine goes from the mutation to the follow-up run_sync.
guard_dropped(t) == NoThread

guard_after_mutation(t) == t

\* Variant of ensure_write_allowed that lets every call through.
ensure_write_unchecked(allow) == TRUE

\* ensure_write_allowed: Ok exactly when the gate is open.
ensure_write_allowed(allow) == allow

\* The engine's setter of the gate: the preference is rewritten as a whole,
\* so a write that fails leaves the persisted value as it was.
set_allow_filesystem_changes(persisted, allow, ok) == IF ok THEN allow ELSE persisted

\* The engine's audit log, kept as its most recent event.
append_audit_event(t, status) == <<t, status>>

RuntimeIdle ==
  /\ sync_lock = NoThread
  /\ watch = [active |-> FALSE, stop_tx |-> NoThread, handle |-> NoThread]
  /\ op = [t \in Cmds |-> "none"]
  /\ local = [t \in Cmds |-> NoThread]
  /\ stop_rx = [w \in Watchers |-> FALSE]
  /\ events = [w \in Watchers |-> FALSE]
  /\ pending_since = [w \in Watchers |-> "none"]
  /\ fsStamp = <<NoThread, "init">>
  /\ view = [t \in Threads |-> <<NoThread, "init">>]
  /\ ret = [t \in Cmds |-> "none"]
  /\ initial_sync = [t \in Cmds |-> "none"]
  /\ audit = <<NoThread, "none">>
  /\ last_change = "ripe"

Init ==
  /\ EngineInit
  /\ LifeIdle
  /\ SideIdle
  /\ RuntimeIdle
  /\ gate = TRUE
  /\ pc = [t \in Threads |-> IF t \in Cmds THEN "idle" ELSE "unborn"]

\* main()'s setup hook: with the gate persisted as true, the first thread
\* starts inside enable_auto_watch_and_initial_sync.
InitConc ==
  /\ EngineInit
  /\ LifeIdle
  /\ SideIdle
  /\ gate \in BOOLEAN
  /\ sync_lock = NoThread
  /\ watch = [active |-> FALSE, stop_tx |-> NoThread, handle |-> NoThread]
  /\ op = [t \in Cmds |-> IF gate /\ t = <<"cmd", 1>> THEN "startup" ELSE "none"]
  /\ local = [t \in Cmds |-> NoThread]
  /\ stop_rx = [w \in Watchers |-> FALSE]
  /\ events = [w \in Watchers |-> FALSE]
  /\ pending_since = [w \in Watchers |-> "none"]
  /\ fsStamp = <<NoThread, "init">>
  /\ view = [t \in Threads |-> <<NoThread, "init">>]
  /\ ret = [t \in Cmds |-> "none"]
  /\ initial_sync = [t \in Cmds |-> "none"]
  /\ audit = <<NoThread, "none">>
  /\ last_change = "ripe"
  /\ pc = [t \in Threads |->
             IF t \in Watchers THEN "unborn"
             ELSE IF gate /\ t = <<"cmd", 1>> THEN "enable_check" ELSE "idle"]

Goto(t, where) == pc' = [pc EXCEPT ![t] = where]

\* A command that returns leaves nothing behind in its thread.
Returns(t) ==
  op' = [q \in Cmds |-> IF q = t /\ pc'[t] = "idle" THEN "none" ELSE op[q]]

\* The value a command returns with, when this step is its return.
Result(t, r) ==
  ret' = [q \in Cmds |-> IF q = t /\ pc'[t] = "idle" THEN r ELSE ret[q]]

\* The webview invokes a command.
Invoke(t, o) ==
  /\ pc[t] = "idle"
  /\ op' = [op EXCEPT ![t] = o]
  /\ Goto(t, IF o \in {"run_sync", "mutator"} THEN "ensure_write_allowed" ELSE "set_gate")
  /\ ret' = [ret EXCEPT ![t] = "none"]
  /\ initial_sync' = [initial_sync EXCEPT ![t] = "none"]
  /\ UNCHANGED <<gate, sync_lock, watch, local, stop_rx, events, pending_since, fsStamp, view>>
  /\ UNCHANGED <<audit, last_change>>
  /\ UNCHANGED engineVars

EnsureWriteAllowed(t) ==
  /\ pc[t] = "ensure_write_allowed"
  /\ Goto(t, IF ensure_write_allowed(gate) THEN "lock" ELSE "idle")
  /\ Returns(t)
  /\ Result(t, "blocked")
  /\ UNCHANGED <<gate, sync_lock, watch, local, stop_rx, events, pending_since, fsStamp, view>>
  /\ UNCHANGED <<initial_sync, audit, last_change>>
  /\ UNCHANGED engineVars

\* sync_lock.lock() of a command, of run_sync_with_lock, or of the watcher.
AcquireLock(t) ==
  /\ pc[t] = "lock"
  /\ lock_available(sync_lock)
  /\ sync_lock' = t
  /\ Goto(t, IF t \in Cmds /\ op[t] = "mutator" THEN "mutate" ELSE "sync_start")
  /\ UNCHANGED <<gate, watch, op, local, stop_rx, events, pending_since, fsStamp, view>>
  /\ UNCHANGED <<ret, initial_sync, audit, last_change>>
  /\ UNCHANGED engineVars

\* find_skill and the engine's mutation (move to trash, rename, ...). When
\* the skill is not found or the mutation fails the command returns and the
\* guard is dropped. A mutation moves a directory under a watched root, which
\* reaches the stream of every running watcher.
Mutate(t, ok) ==
  /\ pc[t] = "mutate"
  /\ IF ok
       THEN /\ fsStamp' = <<t, "mutation">>
            /\ sync_lock' = guard_after_mutation(t)
            /\ Goto(t, "sync_start")
       ELSE /\ sync_lock' = NoThread
            /\ Goto(t, "idle")
            /\ UNCHANGED fsStamp
  /\ Returns(t)
  /\ Result(t, "error")
  /\ audit' = append_audit_event(t, IF ok THEN "success" ELSE "failed")
  /\ events' = [w \in Watchers |-> events[w] \/ (ok /\ pc[w] \notin {"unborn", "exited"})]
  /\ last_change' = IF ok /\ (\E w \in Watchers : pc[w] \notin {"unborn", "exited"})
                      THEN "fresh" ELSE last_change
  /\ UNCHANGED <<gate, watch, local, stop_rx, pending_since, view>>
  /\ UNCHANGED initial_sync
  /\ UNCHANGED engineVars

\* engine.run_sync starts: it reads the filesystem.
SyncStart(t) ==
  /\ pc[t] = "sync_start"
  /\ view' = [view EXCEPT ![t] = fsStamp]
  /\ Goto(t, "syncing")
  /\ UNCHANGED <<gate, sync_lock, watch, op, local, stop_rx, events, pending_since, fsStamp>>
  /\ UNCHANGED <<ret, initial_sync, audit, last_change>>
  /\ UNCHANGED engineVars

\* A run that gets past run_core_sync rewrites ~/.codex/config.toml, one of
\* the watched paths, whatever the file held before.
rewrites_watched_file(ok) == ok /\ write_managed_registry(NoToml).written

\* engine.run_sync returns (Ok or Err) and the guard is dropped. The write of
\* the watched file reaches the stream of every running watcher.
SyncEnd(t, ok) ==
  /\ pc[t] = "syncing"
  /\ fsStamp' = <<t, "run_sync">>
  /\ view' = [view EXCEPT ![t] = <<NoThread, "init">>]
  /\ sync_lock' = IF sync_lock = t THEN NoThread ELSE sync_lock
  /\ Goto(t, IF t \in Watchers THEN "poll"
             ELSE IF op[t] \in {"allow", "startup"}
               THEN (IF ok THEN "recheck_gate" ELSE "rollback_stop")
             ELSE "idle")
  /\ Returns(t)
  /\ Result(t, IF ok THEN "ok" ELSE "error")
  /\ initial_sync' = [q \in Cmds |-> IF q = t /\ op[t] \in {"allow", "startup"}
                                       THEN (IF ok THEN "ok" ELSE "failed")
                                       ELSE initial_sync[q]]
  /\ audit' = append_audit_event(t, IF ok THEN "success" ELSE "failed")
  /\ events' = [w \in Watchers |->
                  events[w] \/ (rewrites_watched_file(ok) /\ pc[w] \notin {"unborn", "exited"})]
  /\ last_change' = IF rewrites_watched_file(ok) /\ (\E w \in Watchers : pc[w] \notin {"unborn", "exited"})
                      THEN "fresh" ELSE last_change
  /\ UNCHANGED <<gate, watch, local, stop_rx, pending_since>>
  /\ UNCHANGED engineVars

\* set_allow_filesystem_changes_inner_with: the preference is written first.
\* When that write fails the command returns its error at once.
SetGate(t, ok) ==
  /\ pc[t] = "set_gate"
  /\ gate' = set_allow_filesystem_changes(gate, op[t] = "allow", ok)
  /\ Goto(t, IF ~ok THEN "idle" ELSE IF op[t] = "allow" THEN "enable_check" ELSE "stop")
  /\ Returns(t)
  /\ Result(t, "error")
  /\ UNCHANGED <<sync_lock, watch, local, stop_rx, events, pending_since, fsStamp, view>>
  /\ UNCHANGED <<initial_sync, audit, last_change>>
  /\ UNCHANGED engineVars

\* enable_auto_watch_and_initial_sync: its three reads of the gate, before
\* the initial sync ("enable_check"), before start_auto_watch
\* ("recheck_gate") and after it ("final_check").
GateCheck(t) ==
  /\ pc[t] \in {"enable_check", "recheck_gate", "final_check"}
  /\ Goto(t, CASE pc[t] = "enable_check" -> IF gate THEN "lock" ELSE "idle"
               [] pc[t] = "recheck_gate" -> IF gate THEN "start_check" ELSE "idle"
               [] OTHER -> IF gate THEN "idle" ELSE "stop")
  /\ Returns(t)
  /\ Result(t, "ok")
  /\ UNCHANGED <<gate, sync_lock, watch, local, stop_rx, events, pending_since, fsStamp, view>>
  /\ UNCHANGED <<initial_sync, audit, last_change>>
  /\ UNCHANGED engineVars

\* A start_auto_watch that takes the watcher for stopped whatever the runtime says.
never_active(state) == FALSE

\* start_auto_watch returns at once when the runtime says a watcher is active.
already_active(state) == state.active

\* start_auto_watch: the read of watch.active, in a critical section of its own.
StartCheck(t) ==
  /\ pc[t] = "start_check"
  /\ Goto(t, IF already_active(watch) THEN "final_check" ELSE "spawn")
  /\ UNCHANGED <<gate, sync_lock, watch, op, local, stop_rx, events, pending_since, fsStamp, view>>
  /\ UNCHANGED <<ret, initial_sync, audit, last_change>>
  /\ UNCHANGED engineVars

\* start_auto_watch: SyncWatchStream::new, then thread::spawn. When the
\* stream cannot be made the error goes up to the rollback.
Spawn(t, w, ok) ==
  /\ pc[t] = "spawn"
  /\ pc[w] = "unborn"
  /\ IF ok
       THEN /\ pc' = [pc EXCEPT ![t] = "register", ![w] = "poll"]
            /\ local' = [local EXCEPT ![t] = w]
       ELSE /\ Goto(t, "rollback_stop")
            /\ UNCHANGED local
  /\ UNCHANGED <<gate, sync_lock, watch, op, stop_rx, events, pending_since, fsStamp, view>>
  /\ UNCHANGED <<ret, initial_sync, audit, last_change>>
  /\ UNCHANGED engineVars

\* start_auto_watch: the runtime state takes the new sender and handle.
Register(t) ==
  /\ pc[t] = "register"
  /\ watch' = [active |-> TRUE, stop_tx |-> local[t], handle |-> local[t]]
  /\ local' = [local EXCEPT ![t] = NoThread]
  /\ Goto(t, "final_check")
  /\ UNCHANGED <<gate, sync_lock, op, stop_rx, events, pending_since, fsStamp, view>>
  /\ UNCHANGED <<ret, initial_sync, audit, last_change>>
  /\ UNCHANGED engineVars

\* stop_auto_watch, its critical section on the watch runtime.
Stop(t) ==
  /\ pc[t] \in {"stop", "rollback_stop"}
  /\ IF ~watch.active
       THEN /\ Goto(t, IF pc[t] = "stop" THEN "idle" ELSE "rollback_gate")
            /\ UNCHANGED <<watch, local, stop_rx>>
       ELSE /\ stop_rx' = [w \in Watchers |-> stop_rx[w] \/ w = watch.stop_tx]
            /\ local' = [local EXCEPT ![t] = watch.handle]
            /\ watch' = [active |-> FALSE, stop_tx |-> NoThread, handle |-> NoThread]
            /\ Goto(t, IF pc[t] = "stop" THEN "join" ELSE "rollback_join")
  /\ Returns(t)
  /\ Result(t, "ok")
  /\ UNCHANGED <<gate, sync_lock, events, pending_since, fsStamp, view>>
  /\ UNCHANGED <<initial_sync, audit, last_change>>
  /\ UNCHANGED engineVars

\* stop_auto_watch: handle.join() returns once the watcher thread has ended.
Join(t) ==
  /\ pc[t] \in {"join", "rollback_join"}
  /\ local[t] = NoThread \/ pc[local[t]] = "exited"
  /\ pc' = [q \in Threads |->
              IF q = t THEN (IF pc[t] = "join" THEN "idle" ELSE "rollback_gate")
              ELSE IF q = local[t] THEN "unborn" ELSE pc[q]]
  /\ local' = [local EXCEPT ![t] = NoThread]
  /\ stop_rx' = [w \in Watchers |-> IF w = local[t] THEN FALSE ELSE stop_rx[w]]
  /\ events' = [w \in Watchers |-> IF w = local[t] THEN FALSE ELSE events[w]]
  /\ pending_since' = [w \in Watchers |-> IF w = local[t] THEN "none" ELSE pending_since[w]]
  /\ Returns(t)
  /\ Result(t, "ok")
  /\ UNCHANGED <<gate, sync_lock, watch, fsStamp, view>>
  /\ UNCHANGED <<initial_sync, audit, last_change>>
  /\ UNCHANGED engineVars

\* set_allow_filesystem_changes_inner_with: the gate is reverted after a
\* failed enable.
\* Either way the command returns the error.
RollbackGate(t, ok) ==
  /\ pc[t] = "rollback_gate"
  /\ gate' = set_allow_filesystem_changes(gate, FALSE, ok)
  /\ Goto(t, "idle")
  /\ Returns(t)
  /\ Result(t, "error")
  /\ UNCHANGED <<sync_lock, watch, local, stop_rx, events, pending_since, fsStamp, view>>
  /\ UNCHANGED <<initial_sync, audit, last_change>>
  /\ UNCHANGED engineVars

\* ------------------------------------------------------- the watcher thread
\* Time passes for a watcher only where its thread waits: in recv_timeout,
\* in lock() while another thread holds the guard, and inside run_sync. The
\* statements between two waits take no time against the 800 ms.
Waiting(w) ==
  \/ pc[w] \in {"unborn", "exited", "recv", "syncing"}
  \/ pc[w] = "lock" /\ sync_lock # NoThread

\* Something changes under a watched path.
FsEvent ==
  /\ \A w \in Watchers : Waiting(w)
  /\ \E w \in Watchers : /\ pc[w] \notin {"unborn", "exited"}
                         /\ ~events[w] \/ last_change = "ripe"
  /\ events' = [w \in Watchers |-> pc[w] \notin {"unborn", "exited"}]
  /\ last_change' = "fresh"
  /\ UNCHANGED <<gate, sync_lock, watch, pc, op, local, stop_rx, pending_since, fsStamp, view>>
  /\ UNCHANGED <<ret, initial_sync, audit>>
  /\ UNCHANGED engineVars

\* AUTO_WATCH_DEBOUNCE_MS pass since the watcher took its last event. With
\* no later event in the stream, the last change is at least as old.
DebounceElapsed(w) ==
  /\ \A v \in Watchers : Waiting(v)
  /\ pending_since[w] = "fresh"
  /\ pending_since' = [pending_since EXCEPT ![w] = "ripe"]
  /\ last_change' = IF events[w] THEN last_change ELSE "ripe"
  /\ UNCHANGED <<gate, sync_lock, watch, pc, op, local, stop_rx, events, fsStamp, view>>
  /\ UNCHANGED <<ret, initial_sync, audit>>
  /\ UNCHANGED engineVars

\* AUTO_WATCH_DEBOUNCE_MS pass since the last change. A watcher that has not
\* taken that change yet measures from an earlier instant.
IdleElapsed ==
  /\ \A w \in Watchers : Waiting(w)
  /\ last_change = "fresh"
  /\ last_change' = "ripe"
  /\ pending_since' = [w \in Watchers |->
                         IF events[w] /\ pending_since[w] = "fresh"
                           THEN "ripe" ELSE pending_since[w]]
  /\ UNCHANGED <<gate, sync_lock, watch, pc, op, local, stop_rx, events, fsStamp, view>>
  /\ UNCHANGED <<ret, initial_sync, audit>>
  /\ UNCHANGED engineVars

\* The head of the loop: stop_rx.try_recv().
WatchStopCheck(w) ==
  /\ pc[w] = "poll"
  /\ Goto(w, IF stop_rx[w] THEN "exited" ELSE "recv")
  /\ UNCHANGED <<gate, sync_lock, watch, op, local, stop_rx, events, pending_since, fsStamp, view>>
  /\ UNCHANGED <<ret, initial_sync, audit, last_change>>
  /\ UNCHANGED engineVars

\* A loop that drops what the stream delivers.
pending_ignoring_event(pending, received) == pending

\* The match on recv_timeout's result: an event sets pending_since to now.
pending_after_recv(pending, received) == IF received THEN "fresh" ELSE pending

\* stream.recv_timeout(250 ms): an event restarts the debounce.
WatchRecv(w) ==
  /\ pc[w] = "recv"
  /\ pending_since' = [pending_since EXCEPT ![w] = pending_after_recv(@, events[w])]
  /\ events' = [events EXCEPT ![w] = FALSE]
  /\ Goto(w, "decide")
  /\ UNCHANGED <<gate, sync_lock, watch, op, local, stop_rx, fsStamp, view>>
  /\ UNCHANGED <<ret, initial_sync, audit, last_change>>
  /\ UNCHANGED engineVars

\* should_sync, and pending_since = None before the lock is taken.
WatchDecide(w) ==
  /\ pc[w] = "decide"
  /\ IF pending_since[w] = "ripe"
       THEN /\ pending_since' = [pending_since EXCEPT ![w] = "none"]
            /\ Goto(w, "lock")
       ELSE /\ Goto(w, "poll")
            /\ UNCHANGED pending_since
  /\ UNCHANGED <<gate, sync_lock, watch, op, local, stop_rx, events, fsStamp, view>>
  /\ UNCHANGED <<ret, initial_sync, audit, last_change>>
  /\ UNCHANGED engineVars

\* Commands declared without async are served one at a time by the main
\* thread, which also runs the setup hook: a command starts when none runs.
InvokeSerial(t, o) ==
  /\ \A q \in Cmds : pc[q] = "idle"
  /\ Invoke(t, o)

RuntimeStep ==
  \/ \E t \in Cmds : EnsureWriteAllowed(t)
  \/ \E t \in Threads : AcquireLock(t)
  \/ \E t \in Cmds, ok \in BOOLEAN : Mutate(t, ok)
  \/ \E t \in Threads : SyncStart(t)
  \/ \E t \in Threads, ok \in BOOLEAN : SyncEnd(t, ok)
  \/ \E t \in Cmds, ok \in BOOLEAN : SetGate(t, ok)
  \/ \E t \in Cmds : GateCheck(t)
  \/ \E t \in Cmds : StartCheck(t)
  \/ \E t \in Cmds, w \in Watchers, ok \in BOOLEAN : Spawn(t, w, ok)
  \/ \E t \in Cmds : Register(t)
  \/ \E t \in Cmds : Stop(t)
  \/ \E t \in Cmds : Join(t)
  \/ \E t \in Cmds, ok \in BOOLEAN : RollbackGate(t, ok)
  \/ FsEvent
  \/ IdleElapsed
  \/ \E w \in Watchers : DebounceElapsed(w)
  \/ \E w \in Watchers : WatchStopCheck(w)
  \/ \E w \in Watchers : WatchRecv(w)
  \/ \E w \in Watchers : WatchDecide(w)

NextConc ==
  \/ \E t \in Cmds, o \in Ops : Invoke(t, o)
  \/ RuntimeStep

NextSerial ==
  \/ \E t \in Cmds, o \in Ops : InvokeSerial(t, o)
  \/ RuntimeStep

vars == <<engineVars, runtimeVars>>

Next ==
  \/ \E p \in Loc, c \in UserCells : UserEdit(p, c)
  \/ \E m \in McpConfigs : UserEditMcp(m)
  \/ \E h \in McpHosts : UserEditMcpHosts(h)
  \/ \E fault \in Faults \ {"link"} : RunSync(NoPath, fault)
  \/ \E failAt \in Loc : RunSync(failAt, "link")

Spec == Init /\ [][Next]_vars

\* The engine with the preference auto_migrate_to_canonical_source off at
\* some runs and on at others.
NextMigrate ==
  \/ \E p \in Loc, c \in UserCells : UserEdit(p, c)
  \/ RunSync(NoPath, "none")
  \/ \E is_dir \in BOOLEAN : RunSyncMigrating(is_dir)

SpecMigrate == Init /\ [][NextMigrate]_vars

SpecConc == InitConc /\ [][NextConc]_vars

SpecSerial == InitConc /\ [][NextSerial]_vars

\* The progress the scheduling gives: a thread that can take a step takes
\* one; a watcher blocked in lock() gets the mutex when it is released again
\* and again; the clock goes on, so a pending change gets 800 ms old when no
\* newer event restarts it.
WatcherStep(w) ==
  \/ WatchStopCheck(w) \/ WatchRecv(w) \/ WatchDecide(w)
  \/ SyncStart(w) \/ \E ok \in BOOLEAN : SyncEnd(w, ok)
CommandStep(t) ==
  \/ EnsureWriteAllowed(t) \/ AcquireLock(t) \/ SyncStart(t) \/ GateCheck(t)
  \/ StartCheck(t) \/ Register(t) \/ Stop(t) \/ Join(t)
  \/ \E ok \in BOOLEAN : Mutate(t, ok) \/ SyncEnd(t, ok) \/ SetGate(t, ok) \/ RollbackGate(t, ok)
  \/ \E w \in Watchers, ok \in BOOLEAN : Spawn(t, w, ok)
Progress ==
  /\ \A w \in Watchers : /\ WF_vars(WatcherStep(w))
                          /\ SF_vars(AcquireLock(w))
                          /\ SF_vars(DebounceElapsed(w))
  /\ \A t \in Cmds : WF_vars(CommandStep(t))
SpecLive == InitConc /\ [][NextSerial]_vars /\ Progress

\* ------------------------------------------------------ lifecycle commands
\* The records a caller can pass: those of the skills and the archive on
\* disk, and the record of the previous call (a snapshot not yet refreshed).
Records(d) ==
  {ActiveRecord(d, p) : p \in {q \in SkillPaths : d.paths[q].kind = "dir"}}
    \cup load_archived_entries(d)
    \cup (IF lastCall.op = "none" THEN {} ELSE {lastCall.skill})

\* One call of a mutator, recorded under the name of what made it.
CallAs(name, o, skill, confirmed, new_title, failAt) ==
  /\ calls < MaxCalls
  /\ skill \in Records(disk)
  /\ failAt # "none" => faults < MaxFaults
  /\ \E out \in {Mutator(disk, o, skill, confirmed, new_title, failAt)} :
     /\ failAt # "none" => out.fired
     /\ disk' = out.disk
     /\ lastCall' = [op |-> name, skill |-> skill, new_title |-> new_title, failAt |-> failAt,
                     result |-> out.result, pre |-> disk,
                     clean |-> Mutator(disk, o, skill, confirmed, new_title, "none").disk,
                     before |-> [op |-> lastCall.op, result |-> lastCall.result,
                                 hash |-> hash_directory(lastCall.pre,
                                            lastCall.skill.canonical_source_path)]]
  /\ calls' = calls + 1
  /\ faults' = IF failAt = "none" THEN faults ELSE faults + 1
  /\ UNCHANGED <<fs, manifest, stateFile, codexRegistry, mcpConfig, mcpHosts, edits,
                 lastOkListing, lastRun>>
  /\ UNCHANGED runtimeVars
  /\ UNCHANGED sideVars

Call(o, skill, confirmed, new_title, failAt) ==
  CallAs(o, o, skill, confirmed, new_title, failAt)

Delete(skill, confirmed, failAt) ==
  /\ free_trash_slot(disk.trash,
                     IF skill.status = "archived" THEN "bundle" ELSE skill.skill_key, 0)
       <= MaxTrash
  /\ Call("delete", skill, confirmed, "K", failAt)
\* Bundle names carry a timestamp and a random suffix: a new bundle never
\* meets an old one. One bundle is modelled.
Archive(skill, confirmed, failAt) ==
  /\ ~disk.bundle.made
  /\ Call("archive", skill, confirmed, "K", failAt)
Restore(skill, confirmed, failAt) == Call("restore", skill, confirmed, "K", failAt)
MakeGlobal(skill, confirmed, failAt) == Call("make_global", skill, confirmed, "K", failAt)
Rename(skill, new_title, failAt) == Call("rename", skill, TRUE, new_title, failAt)

\* The desktop commands that address a skill by its key (the command
\* make_global written make_global_skill, apart from the mutator): the status each
\* passes in the locator, and the mutator each calls on the record found.
SkillCommands == {"delete_skill", "archive_skill", "restore_skill", "make_global_skill",
                  "rename_skill"}
locator_status(command) ==
  CASE command = "delete_skill" -> "any"
    [] command = "restore_skill" -> "archived"
    [] OTHER -> "active"
command_mutator(command) ==
  CASE command = "delete_skill" -> "delete"
    [] command = "archive_skill" -> "archive"
    [] command = "restore_skill" -> "restore"
    [] command = "make_global_skill" -> "make_global"
    [] command = "rename_skill" -> "rename"

\* The skills of the snapshot a run leaves, and their place in it:
\* sort_entries orders by status, then scope, then name and workspace.
Snapshot(d) ==
  {ActiveRecord(d, p) : p \in {q \in SkillPaths : d.paths[q].kind = "dir"}}
    \cup load_archived_entries(d)
entry_rank(skill) ==
  (IF skill.status = "active" THEN 0 ELSE 100)
    + (IF skill.scope = "global" THEN 0 ELSE 10)
    + (IF skill.canonical_source_path = BundleSource THEN 0
       ELSE CHOOSE i \in 1..Len(PathOrder) : PathOrder[i] = skill.canonical_source_path)

\* find_skill: the first record of the snapshot with the key and, when the
\* locator names one, the status; none when no record matches.
find_skill(skills, skill_key, status) ==
  LET matching == {s \in skills : s.skill_key = skill_key
                                    /\ (status = "any" \/ s.status = status)}
  IN {s \in matching : \A q \in matching : entry_rank(s) <= entry_rank(q)}

\* A command addressed by key: "skill not found" changes nothing; the record
\* found goes to the mutator.
SkillCommand(command, skill_key, confirmed, new_title) ==
  /\ calls < MaxCalls
  /\ command # "rename_skill" => new_title = "K"
  /\ command = "archive_skill" => ~disk.bundle.made
  /\ command = "delete_skill" =>
       \A skill \in find_skill(Snapshot(disk), skill_key, "any") :
         free_trash_slot(disk.trash,
                         IF skill.status = "archived" THEN "bundle" ELSE skill.skill_key, 0)
           <= MaxTrash
  /\ \E skill \in find_skill(Snapshot(disk), skill_key, locator_status(command)) :
       CallAs(command, command_mutator(command), skill, confirmed, new_title, "none")

InitLife ==
  /\ EngineInit
  /\ LifeInit
  /\ SideIdle
  /\ RuntimeIdle
  /\ gate = TRUE
  /\ pc = [t \in Threads |-> IF t \in Cmds THEN "idle" ELSE "unborn"]

NextLife ==
  \/ \E skill \in Records(disk), confirmed \in BOOLEAN, failAt \in LifeSteps :
       Delete(skill, confirmed, failAt)
  \/ \E skill \in Records(disk), confirmed \in BOOLEAN, failAt \in LifeSteps :
       Archive(skill, confirmed, failAt)
  \/ \E skill \in Records(disk), confirmed \in BOOLEAN, failAt \in LifeSteps :
       Restore(skill, confirmed, failAt)
  \/ \E skill \in Records(disk), confirmed \in BOOLEAN, failAt \in LifeSteps :
       MakeGlobal(skill, confirmed, failAt)
  \/ \E skill \in Records(disk), new_title \in Titles, failAt \in LifeSteps :
       Rename(skill, new_title, failAt)
  \/ \E command \in SkillCommands, skill_key \in SkillKeys, confirmed \in BOOLEAN,
        new_title \in Titles :
       SkillCommand(command, skill_key, confirmed, new_title)

SpecLife == InitLife /\ [][NextLife]_vars

\* ------------------------------------------------ starred-skill commands
\* A settings file and a state file as some earlier session left them.
StarInit ==
  /\ prefs \in StarLists
  /\ snapshot \in [skills : SUBSET StarIds, conflict : BOOLEAN]
  /\ lastStar = NoStar
  /\ starSteps = 0

StarFrame ==
  /\ starSteps' = starSteps + 1
  /\ UNCHANGED auditVars
  /\ UNCHANGED mcpVars
  /\ UNCHANGED <<fs, manifest, stateFile, codexRegistry, mcpConfig, mcpHosts, edits, faults,
                 lastOkListing, lastRun>>
  /\ UNCHANGED lifeVars
  /\ UNCHANGED runtimeVars

SetSkillStarred(skill_id, starred, save_ok) ==
  /\ starSteps < MaxStarSteps
  /\ ~save_ok => skill_id \in snapshot.skills
  /\ \E out \in {set_skill_starred(snapshot.skills, prefs, skill_id, starred, save_ok)} :
     /\ prefs' = out.prefs
     /\ lastStar' = [op |-> "set", id |-> skill_id, new_id |-> skill_id, starred |-> starred,
                     ok |-> out.ok, ret |-> out.ret, pre |-> prefs,
                     skills |-> snapshot.skills]
  /\ UNCHANGED snapshot
  /\ StarFrame

\* The end of rename and make_global once the directory has been moved:
\* run_sync, then the migration of the starred id. A conflict on disk makes
\* run_sync return the error, and the failed state keeps the previous skills.
MoveStarred(old_id, new_id) ==
  /\ starSteps < MaxStarSteps
  /\ old_id \in snapshot.skills
  /\ old_id # new_id
  /\ old_id[1] = "global" => new_id[1] = "global"
  /\ LET next == (snapshot.skills \ {old_id}) \cup {new_id}
     IN IF snapshot.conflict
        THEN UNCHANGED <<prefs, snapshot>>
        ELSE /\ snapshot' = [snapshot EXCEPT !.skills = next]
             /\ prefs' = migrate_starred_skill_id(prefs, old_id, new_id, next)
  /\ lastStar' = [op |-> "move", id |-> old_id, new_id |-> new_id, starred |-> TRUE,
                  ok |-> ~snapshot.conflict, ret |-> <<>>, pre |-> prefs,
                  skills |-> snapshot.skills]
  /\ StarFrame

InitStar ==
  /\ EngineInit
  /\ LifeIdle
  /\ StarInit
  /\ AuditIdle
  /\ McpIdle
  /\ RuntimeIdle
  /\ gate = TRUE
  /\ pc = [t \in Threads |-> IF t \in Cmds THEN "idle" ELSE "unborn"]

NextStar ==
  \/ \E skill_id \in StarIds, starred \in BOOLEAN, save_ok \in BOOLEAN :
       SetSkillStarred(skill_id, starred, save_ok)
  \/ \E old_id \in StarIds, new_id \in StarIds : MoveStarred(old_id, new_id)

SpecStar == InitStar /\ [][NextStar]_vars

\* Two callers of the engine at once, each in a read-modify-write of the
\* settings file: set_skill_starred takes no lock, rename and make_global
\* hold the sync mutex around run_sync and the migration.
StarConcFrame ==
  /\ UNCHANGED <<lastStar, starSteps>>
  /\ UNCHANGED auditVars
  /\ UNCHANGED mcpVars
  /\ UNCHANGED <<fs, manifest, stateFile, codexRegistry, mcpConfig, mcpHosts, edits, faults,
                 lastOkListing, lastRun>>
  /\ UNCHANGED lifeVars
  /\ UNCHANGED <<gate, watch, stop_rx, events, pending_since, fsStamp, view, ret,
                 initial_sync, audit, last_change>>

\* load_state and load_settings of set_skill_starred.
StarLoad(t, skill_id, starred) ==
  /\ pc[t] = "idle"
  /\ skill_id \in snapshot.skills
  /\ pc' = [pc EXCEPT ![t] = "star_loaded"]
  /\ op' = [op EXCEPT ![t] = IF starred THEN "star" ELSE "unstar"]
  /\ local' = [local EXCEPT ![t] = [id |-> skill_id, new_id |-> skill_id,
                                     settings |-> prefs, skills |-> snapshot.skills]]
  /\ UNCHANGED <<prefs, snapshot, sync_lock>>
  /\ StarConcFrame

\* save_settings of set_skill_starred.
StarSave(t) ==
  /\ pc[t] = "star_loaded"
  /\ prefs' = set_skill_starred(local[t].skills, local[t].settings, local[t].id,
                                op[t] = "star", TRUE).prefs
  /\ pc' = [pc EXCEPT ![t] = "star_done"]
  /\ UNCHANGED <<op, local, snapshot, sync_lock>>
  /\ StarConcFrame

\* rename or make_global under the mutex, up to load_settings of the
\* migration: the directory moved, run_sync has written the new snapshot.
MoveLoad(t, old_id, new_id) ==
  /\ pc[t] = "idle"
  /\ sync_lock = NoThread
  /\ old_id \in snapshot.skills
  /\ new_id \notin snapshot.skills
  /\ old_id[1] = "global" => new_id[1] = "global"
  /\ ~snapshot.conflict
  /\ sync_lock' = t
  /\ snapshot' = [snapshot EXCEPT !.skills = (@ \ {old_id}) \cup {new_id}]
  /\ pc' = [pc EXCEPT ![t] = "move_loaded"]
  /\ op' = [op EXCEPT ![t] = "move"]
  /\ local' = [local EXCEPT ![t] = [id |-> old_id, new_id |-> new_id,
                                     settings |-> prefs, skills |-> snapshot'.skills]]
  /\ UNCHANGED prefs
  /\ StarConcFrame

\* save_settings of the migration, and the mutex released on return.
MoveSave(t) ==
  /\ pc[t] = "move_loaded"
  /\ prefs' = migrate_starred_skill_id(local[t].settings, local[t].id, local[t].new_id,
                                       local[t].skills)
  /\ sync_lock' = NoThread
  /\ pc' = [pc EXCEPT ![t] = "star_done"]
  /\ UNCHANGED <<op, local, snapshot>>
  /\ StarConcFrame

NextStarConc ==
  \/ \E t \in Cmds, skill_id \in StarIds, starred \in BOOLEAN : StarLoad(t, skill_id, starred)
  \/ \E t \in Cmds : StarSave(t)
  \/ \E t \in Cmds, old_id \in StarIds, new_id \in StarIds : MoveLoad(t, old_id, new_id)
  \/ \E t \in Cmds : MoveSave(t)

SpecStarConc == InitStar /\ [][NextStarConc]_vars

\* ----------------------------------------------------- audit log commands
AuditInit ==
  /\ auditFile = NoFile
  /\ appended = <<>>
  /\ cap \in 0..MaxCap
  /\ managed = "empty"
  /\ lastAudit = NoAudit

AuditFrame ==
  /\ UNCHANGED <<fs, manifest, stateFile, codexRegistry, mcpConfig, mcpHosts, edits, faults,
                 lastOkListing, lastRun>>
  /\ UNCHANGED lifeVars
  /\ UNCHANGED starVars
  /\ UNCHANGED mcpVars
  /\ UNCHANGED runtimeVars

AuditEvent(status) == [id |-> Len(appended) + 1, status |-> status]

\* Any caller of the store appends one event.
AppendEvent(status) ==
  /\ Len(appended) < MaxAppends
  /\ auditFile' = append_event(auditFile, AuditEvent(status), cap)
  /\ appended' = Append(appended, AuditEvent(status))
  /\ lastAudit' = [op |-> "append", ok |-> TRUE, same |-> TRUE, before |-> Len(appended)]
  /\ UNCHANGED <<cap, managed>>
  /\ AuditFrame

\* A run that records every success.
record_every_run(ok, previous, next) == IF ~ok THEN <<"failed">> ELSE <<"success">>
\* The end of a reconciliation: a failed run appends a failed event; a
\* successful one appends a success event unless its managed state equals
\* that of the previous successful snapshot.
record_run(ok, previous, next) ==
  IF ~ok THEN <<"failed">>
  ELSE IF next = previous THEN <<>>
  ELSE <<"success">>

RunSyncAudited(ok, next) ==
  /\ Len(appended) < MaxAppends
  /\ LET recorded == record_run(ok, managed, next)
     IN IF recorded = <<>> THEN UNCHANGED <<auditFile, appended>>
        ELSE /\ auditFile' = append_event(auditFile, AuditEvent(recorded[1]), cap)
             /\ appended' = Append(appended, AuditEvent(recorded[1]))
  /\ managed' = IF ok THEN next ELSE managed
  /\ lastAudit' = [op |-> "run", ok |-> ok, same |-> next = managed,
                   before |-> Len(appended)]
  /\ UNCHANGED cap
  /\ AuditFrame

InitAudit ==
  /\ EngineInit
  /\ LifeIdle
  /\ StarIdle
  /\ AuditInit
  /\ McpIdle
  /\ RuntimeIdle
  /\ gate = TRUE
  /\ pc = [t \in Threads |-> IF t \in Cmds THEN "idle" ELSE "unborn"]

NextAudit ==
  \/ \E status \in AuditStatuses : AppendEvent(status)
  \/ \E ok \in BOOLEAN, next \in ManagedStates : RunSyncAudited(ok, next)

SpecAudit == InitAudit /\ [][NextAudit]_vars

\* ------------------------------------------------------ the MCP registry
UserText == <<"a", "LF">>
JsonDoc(root, proj, pretty) ==
  [exists |-> TRUE, root |-> root, projects |-> proj # {}, proj |-> proj, pretty |-> pretty]
TomlText(text) == [NoToml EXCEPT !.exists = TRUE, !.text = text]

\* Host files as the user and the agents' own tools left them before the first run.
McpInit ==
  /\ \E user \in {NoJson, JsonDoc({"k"}, {}, TRUE), JsonDoc({}, {"k"}, TRUE)},
        ws \in {NoJson, JsonDoc({"k"}, {}, TRUE), JsonDoc({"k", "n"}, {}, FALSE)} :
       hostJson = [p \in JsonPaths |->
                     IF p = "claude_user" THEN user ELSE IF p = "ws_mcp" THEN ws ELSE NoJson]
  /\ \E ws_codex \in {NoToml, TomlText(UserText)} :
       hostToml = [p \in TomlPaths |->
                     IF p = "codex" THEN TomlText(UserText)
                     ELSE IF p = "ws_codex" THEN ws_codex ELSE NoToml]
  /\ mcpManifest = [p \in ManifestPaths |-> NoTarget]
  /\ wsRoots \in BOOLEAN
  /\ mcpRecorded = [L \in Locations |-> {}]
  /\ everManaged = {}
  /\ lastMcp = NoMcp
  /\ mcpSteps = 0

McpFrame ==
  /\ mcpSteps' = mcpSteps + 1
  /\ UNCHANGED <<fs, manifest, stateFile, codexRegistry, mcpConfig, mcpHosts, edits, faults,
                 lastOkListing, lastRun>>
  /\ UNCHANGED lifeVars
  /\ UNCHANGED starVars
  /\ UNCHANGED auditVars
  /\ UNCHANGED runtimeVars

\* run_sync, its registry steps: write the codex skills registry, then reconcile
\* the MCP catalog with the host files (toml is the state after any earlier step).
Reconcile(call, result, toml, scope, agent, id) ==
  \E registry \in {write_managed_registry(toml["codex"])} :
  \E out \in {sync(hostJson, [toml EXCEPT !["codex"] = registry.file], mcpManifest, wsRoots)} :
     /\ hostJson' = out.json
     /\ hostToml' = out.toml
     /\ mcpManifest' = out.manifest
     /\ mcpRecorded' = out.recorded
     /\ everManaged' = everManaged \cup UNION {out.recorded[L] : L \in Locations}
     /\ lastMcp' = [op |-> call, result |-> result, edit |-> "none",
                    json |-> hostJson, toml |-> hostToml, manifest |-> mcpManifest,
                    recorded |-> mcpRecorded, managed |-> everManaged,
                    plans |-> out.plans, codex_plan |-> out.codex_plan,
                    rewritten |-> out.rewritten,
                    written |-> out.written \cup (IF registry.written THEN {"codex"} ELSE {})
                                \cup (IF toml # hostToml THEN {"central"} ELSE {}),
                    same |-> out.same
                             \cup (IF registry.written /\ registry.file = toml["codex"]
                                     THEN {"codex"} ELSE {}),
                    skipped |-> out.skipped, aligned |-> out.aligned,
                    observed |-> out.observed, before |-> out.before, cat |-> out.cat,
                    candidate |-> workspace_candidates(hostJson, hostToml, wsRoots),
                    scope |-> scope, agent |-> agent, id |-> id]

RunSyncMcp ==
  /\ mcpSteps < MaxMcpSteps
  /\ Reconcile("sync", "ok", hostToml, "any", "codex", <<"global", "k">>)
  /\ UNCHANGED wsRoots
  /\ McpFrame

\* set_mcp_server_enabled: set_enabled, then a run when it returned Ok.
SetMcpServerEnabled(server_key, agent, enabled, scope) ==
  /\ mcpSteps < MaxMcpSteps
  /\ \E out \in {set_enabled(hostJson, hostToml, wsRoots, server_key, agent, enabled, scope)} :
       IF out.result = "ok"
         THEN Reconcile("set_enabled", "ok", out.toml, scope, agent, out.id)
         ELSE /\ lastMcp' = [NoMcp EXCEPT !.op = "set_enabled", !.result = out.result,
                                          !.json = hostJson, !.toml = hostToml,
                                          !.manifest = mcpManifest, !.scope = scope,
                                          !.agent = agent, !.id = out.id]
              /\ UNCHANGED <<hostJson, hostToml, mcpManifest, mcpRecorded, everManaged>>
  /\ UNCHANGED wsRoots
  /\ McpFrame

RECURSIVE to_crlf(_)
to_crlf(s) ==
  IF s = <<>> THEN <<>>
  ELSE (IF s[1] = "LF" THEN <<"CR", "LF">> ELSE <<s[1]>>) \o to_crlf(Tail(s))

EditKinds == {"delete_ws_mcp", "delete_ws_codex", "add_server", "add_user_server",
              "crlf", "append", "flip_project"}

\* The user, or an agent's own tool, changes a host file between two calls.
McpUserEdit(kind, key) ==
  /\ mcpSteps < MaxMcpSteps
  /\ lastMcp.op \in {"sync", "set_enabled"}
  /\ CASE kind = "delete_ws_mcp" ->
            /\ hostJson["ws_mcp"].exists /\ key = "k"
            /\ hostJson' = [hostJson EXCEPT !["ws_mcp"] = NoJson]
            /\ UNCHANGED hostToml
       [] kind = "delete_ws_codex" ->
            /\ hostToml["ws_codex"].exists /\ key = "k"
            /\ hostToml' = [hostToml EXCEPT !["ws_codex"] = NoToml]
            /\ UNCHANGED hostJson
       [] kind = "add_server" ->
            /\ hostJson["ws_mcp"].exists /\ key \notin hostJson["ws_mcp"].root
            /\ hostJson' = [hostJson EXCEPT !["ws_mcp"].root = @ \cup {key}]
            /\ UNCHANGED hostToml
       [] kind = "add_user_server" ->
            /\ hostJson["claude_user"].exists /\ key \notin hostJson["claude_user"].root
            /\ hostJson' = [hostJson EXCEPT !["claude_user"].root = @ \cup {key}]
            /\ UNCHANGED hostToml
       [] kind = "crlf" ->
            /\ key = "k" /\ \A i \in DOMAIN hostToml["codex"].text : hostToml["codex"].text[i] # "CR"
            /\ hostToml' = [hostToml EXCEPT !["codex"].text = to_crlf(@)]
            /\ UNCHANGED hostJson
       [] kind = "append" ->
            /\ key = "k"
            /\ hostToml' = [hostToml EXCEPT !["codex"].text = @ \o <<"a">>]
            /\ UNCHANGED hostJson
       [] kind = "flip_project" ->
            /\ hostToml["central"].cat[<<"global", key>>].present
            /\ ~hostToml["central"].cat[<<"global", key>>].project
            /\ hostToml' = [hostToml EXCEPT !["central"].cat[<<"global", key>>].project = TRUE]
            /\ UNCHANGED hostJson
  /\ lastMcp' = [NoMcp EXCEPT !.op = "edit", !.edit = kind, !.json = hostJson, !.toml = hostToml,
                              !.manifest = mcpManifest]
  /\ UNCHANGED <<mcpManifest, wsRoots, mcpRecorded, everManaged>>
  /\ McpFrame

Agents == {"codex", "claude", "project"}

InitMcp ==
  /\ EngineInit
  /\ LifeIdle
  /\ StarIdle
  /\ AuditIdle
  /\ McpInit
  /\ RuntimeIdle
  /\ gate = TRUE
  /\ pc = [t \in Threads |-> IF t \in Cmds THEN "idle" ELSE "unborn"]

NextMcp ==
  \/ RunSyncMcp
  \/ \E agent \in Agents, enabled \in BOOLEAN, scope \in {"any", "global", "project"} :
       SetMcpServerEnabled("k", agent, enabled, scope)
  \/ \E kind \in EditKinds, key \in Keys : McpUserEdit(kind, key)

SpecMcp == InitMcp /\ [][NextMcp]_vars

\* =================================================================== claims
\* A run has happened, and what it returned.
Ran == lastRun.result # "none"
Returned(r) == lastRun.result = r
ReturnedError == Ran /\ ~Returned("ok")

\* The candidates of group g in filesystem f do not all have one hash.
ConflictGroup(f, g) ==
  \E r1, r2 \in Roots :
    /\ f[<<g, r1>>].kind = "pkg"
    /\ f[<<g, r2>>].kind = "pkg"
    /\ f[<<g, r1>>].hash # f[<<g, r2>>].hash

\* A thread is inside engine.run_sync.
InRunSync(t) == pc[t] = "syncing"

\* A thread is inside a command's or the watcher's guarded section.
InGuardedSection(t) == pc[t] \in {"mutate", "sync_start", "syncing"}

\* C1: at most one run_sync executes at a time in the process, whichever
\* entry point started it (the run_sync command, a mutator's follow-up, the
\* initial sync when the gate is enabled, the watcher).
C1_OneRunSyncAtATime ==
  Cardinality({t \in Threads : InRunSync(t)}) <= 1

\* One thread is inside run_sync and every other thread waits for the lock.
C1_Witness ==
  \E t \in Threads :
    /\ InRunSync(t)
    /\ \A u \in Threads \ {t} : pc[u] = "lock"

\* C2: a lifecycle mutator's mutation and its follow-up reconciliation are
\* one critical section under the sync mutex: no other thread mutates or
\* reconciles in between, and the follow-up reads the filesystem exactly as
\* the mutation left it.
C2_MutatorCriticalSection ==
  \A t \in Cmds :
    (op[t] = "mutator" /\ pc[t] \in {"sync_start", "syncing"}) =>
      /\ \A u \in Threads \ {t} : ~InGuardedSection(u)
      /\ fsStamp = <<t, "mutation">>
      /\ pc[t] = "syncing" => view[t] = <<t, "mutation">>

\* A mutator is in its follow-up run_sync while another mutator and the
\* watcher wait for the lock.
C2_Witness ==
  \E t \in Cmds :
    /\ op[t] = "mutator"
    /\ pc[t] = "syncing"
    /\ view[t] = <<t, "mutation">>
    /\ \A u \in Cmds \ {t} : op[u] = "mutator" /\ pc[u] = "lock"
    /\ \A w \in Watchers : pc[w] = "lock"

\* C3: after any run, what is persisted is either the run's new snapshot
\* with the run's new manifests, or the previous listing with the previous
\* manifests. (Stated as the spec has it; the engine does not keep it.)
C3_StateAndManifestsAgree ==
  Ran =>
    \/ Returned("ok") /\ manifest = lastRun.new
    \/ /\ ~Returned("ok")
       /\ Listing(stateFile) = Listing(lastRun.previous)
       /\ manifest = lastRun.old

\* C4: whenever run_sync returns an error, the persisted snapshot has status
\* Failed and carries that error's message. (Stated as the spec has it; the
\* engine does not keep it.)
C4_ErrorLeavesFailedSnapshot ==
  ReturnedError => stateFile.status = "failed" /\ stateFile.error = lastRun.result

\* C5: the listing fields of a Failed snapshot (skills, subagents,
\* mcp_servers, top_skills, top_subagents) are those of the most recent
\* successful run, also after several failed runs in a row.
C5_FailedKeepsLastOkListing ==
  stateFile.status = "failed" => Listing(stateFile) = lastOkListing

\* Two failed runs in a row after a successful run that listed something.
C5_Witness ==
  /\ stateFile.status = "failed"
  /\ lastRun.previous.status = "failed"
  /\ stateFile.skills # <<>>

\* C6: if the key of group g has a conflict, the run creates, retargets and
\* removes no symlink at any root of g.
C6_ConflictTouchesNoLink ==
  Ran =>
    \A g \in Groups : ConflictGroup(lastRun.pre, g) =>
      \A r \in Roots :
        (lastRun.pre[<<g, r>>].kind = "link" \/ lastRun.post[<<g, r>>].kind = "link")
          => lastRun.post[<<g, r>>] = lastRun.pre[<<g, r>>]

\* A run met a conflict on a key that has a mirror symlink from before and
\* a root where a link would otherwise have been made or replaced.
C6_Witness ==
  /\ Ran
  /\ \E g \in Groups :
       /\ ConflictGroup(lastRun.pre, g)
       /\ \E r \in Roots : lastRun.pre[<<g, r>>].kind = "link"

C8_RegularFilesUntouched ==
  Ran =>
    \A p \in Loc :
      lastRun.pre[p].kind \in {"pkg", "other"} => lastRun.post[p] = lastRun.pre[p]

\* C9: when a key has no elected package any more, a successful run leaves
\* none of the mirror symlinks that earlier runs made for it. (Stated as the
\* spec has it; the engine does not keep it. No write has failed in these
\* histories, so every symlink was recorded by the run that made it.)
C9_StaleLinksAllRemoved ==
  (faults = 0 /\ Returned("ok")) =>
    \A g \in Groups : lastRun.elected[g] = 0 =>
      \A r \in Roots : fs[<<g, r>>].kind # "link"

C11_TargetPathsResolveToCanonical ==
  Returned("ok") =>
    \A entries \in {stateFile.skills, stateFile.subagents} :
      \A i \in 1..Len(entries) :
        \A p \in entries[i].target_paths :
          /\ path_exists_or_symlink(lastRun.post, p)
          /\ standardized_path(lastRun.post, p) = entries[i].canonical_source_path

\* C12: when a successful run follows a successful run with no user edit in
\* between, the snapshot it persists equals the one the first run persisted
\* (the model's snapshot carries no time stamps). (Stated as the spec has it;
\* the engine does not keep it.)
C12_SecondRunSameState ==
  (Returned("ok") /\ lastRun.quiet) => stateFile = lastRun.previous

\* C13: when the gate is false, a mutator command (run_sync or a lifecycle
\* mutator) that reaches its gate check returns the blocked error in that
\* very step: the filesystem, the state and manifests, the sync lock and the
\* audit log are as before, and no reconciliation is started.
C13_GateBlocksMutators ==
  [][\A t \in Cmds :
       (pc[t] = "ensure_write_allowed" /\ ~gate /\ pc'[t] # pc[t]) =>
         /\ pc'[t] = "idle"
         /\ ret'[t] = "blocked"
         /\ fsStamp' = fsStamp
         /\ audit' = audit
         /\ sync_lock' = sync_lock
         /\ \A q \in Threads : pc'[q] = "syncing" => pc[q] = "syncing"
         /\ UNCHANGED engineVars]_vars

C13_Witness ==
  \E t \in Cmds : ret[t] = "blocked" /\ ~gate

\* C14: a call that sets the gate to true returns either success, with the
\* gate true, its initial reconciliation completed successfully and the
\* watcher running, or an error, with the gate false and no watcher running.
\* (Stated as the spec has it; the code does not keep it when the write that
\* reverts the gate fails.)
C14_EnableEndsInOneOfTwoStates ==
  [][\A t \in Cmds :
       (op[t] = "allow" /\ pc[t] # "idle" /\ pc'[t] = "idle") =>
         \/ /\ ret'[t] = "ok"
            /\ gate'
            /\ initial_sync'[t] = "ok"
            /\ watch'.active
            /\ pc'[watch'.handle] \notin {"unborn", "exited"}
         \/ /\ ret'[t] = "error"
            /\ ~gate'
            /\ ~watch'.active
            /\ \A w \in Watchers : pc'[w] \in {"unborn", "exited"}]_vars

\* C15: the watcher starts a reconciliation only when at least
\* AUTO_WATCH_DEBOUNCE_MS have passed since the most recent change event.
\* (Stated as the spec has it; the code measures the idle period before it
\* waits for the sync lock, not when the reconciliation starts.)
C15_AutoSyncOnlyAfterIdle ==
  [][\A w \in Watchers :
       (pc[w] = "sync_start" /\ pc'[w] = "syncing") => last_change = "ripe"]_vars

\* C16: once the stop signal has been sent to a watcher, that watcher does
\* not begin a new reconciliation. (Stated as the spec has it; the loop reads
\* the stop channel only at its head.)
C16_NoSyncAfterStopSignal ==
  [][\A w \in Watchers :
       (pc[w] = "sync_start" /\ pc'[w] = "syncing") => ~stop_rx[w]]_vars
\* C17: after any lifecycle mutator call (delete, archive, restore, rename,
\* make_global), whatever it returns and wherever an I/O failure interrupts
\* it, the filesystem is either exactly as before the call or in the complete
\* post-mutation state (what the same call leaves when no I/O fails).
C17_FullyMutatedOrUnchanged ==
  lastCall.op # "none" => disk = lastCall.pre \/ disk = lastCall.clean

\* C18: an archive followed by a restore of the same key leaves an active
\* skill for that key whose content hash equals the hash before the archive.
C18_ArchiveRestoreKeepsHash ==
  (/\ lastCall.op = "restore" /\ lastCall.result = "ok"
   /\ lastCall.before.op = "archive" /\ lastCall.before.result = "ok") =>
    hash_directory(disk, preferred_global_destination(lastCall.skill.skill_key))
      = lastCall.before.hash

\* C19: a successful delete moves the target to a name under ~/.Trash that
\* did not exist before the call, <name> or <name>.N for the smallest free N,
\* and every Trash entry that existed before the call is still there unchanged.
C19_DeleteKeepsTrash ==
  (lastCall.op = "delete" /\ lastCall.result = "ok") =>
    LET archived == lastCall.skill.status = "archived"
        base_name == IF archived THEN "bundle" ELSE lastCall.skill.skill_key
        payload == IF archived THEN lastCall.pre.bundle
                   ELSE cell_at(lastCall.pre, lastCall.skill.canonical_source_path)
    IN \E i \in 0..MaxTrash :
         /\ lastCall.pre.trash[base_name][i] = Absent
         /\ \A j \in 0..(i - 1) : lastCall.pre.trash[base_name][j] # Absent
         /\ disk.trash = [lastCall.pre.trash EXCEPT ![base_name][i] = payload]
         /\ payload # Absent
\* Two same-named skills deleted one after the other with an older payload of
\* that name already in the Trash: the third payload went to <name>.2.
C19_Witness ==
  /\ lastCall.op = "delete" /\ lastCall.result = "ok"
  /\ lastCall.before.op = "delete" /\ lastCall.before.result = "ok"
  /\ lastCall.pre.trash["k"][0] = Other
  /\ lastCall.pre.trash["k"][1].kind = "dir"
  /\ disk.trash["k"][2].kind = "dir"

\* C20: when rename has moved the directory and the title rewrite then fails,
\* the call returns the error with the directory back at its original path
\* and nothing at the new path.
C20_TitleFailureRevertsMove ==
  (lastCall.op = "rename" /\ lastCall.result = "title") =>
    LET source == lastCall.skill.canonical_source_path
        destination == IF lastCall.skill.scope = "project"
                       THEN <<"project", normalized_skill_key(lastCall.new_title)>>
                       ELSE preferred_global_destination(normalized_skill_key(lastCall.new_title))
    IN /\ cell_at(disk, source) = cell_at(lastCall.pre, source)
       /\ cell_at(disk, destination) = Absent

\* Position of the first occurrence of an id in a list (0: not in it).
FirstIndex(list, id) ==
  IF \E i \in DOMAIN list : list[i] = id
  THEN CHOOSE i \in DOMAIN list : list[i] = id /\ \A j \in 1..(i - 1) : list[j] # id
  ELSE 0

\* C21: every list set_skill_starred returns holds only ids of skills of the
\* current snapshot, holds no id twice, and keeps the ids in the order in
\* which they were first starred: the stored order, a newly starred id last.
C21_StarredListSane ==
  (lastStar.op = "set" /\ lastStar.ok) =>
    LET returned == lastStar.ret IN
    /\ \A i \in DOMAIN returned : returned[i] \in lastStar.skills
    /\ \A i, j \in DOMAIN returned : i # j => returned[i] # returned[j]
    /\ \A i, j \in DOMAIN returned :
         (i < j /\ FirstIndex(lastStar.pre, returned[j]) # 0) =>
           /\ FirstIndex(lastStar.pre, returned[i]) # 0
           /\ FirstIndex(lastStar.pre, returned[i]) < FirstIndex(lastStar.pre, returned[j])
    /\ \A id \in lastStar.skills :
         (\E i \in DOMAIN returned : returned[i] = id) <=>
           IF id = lastStar.id THEN lastStar.starred
           ELSE FirstIndex(lastStar.pre, id) # 0
\* A stored list with a repeated id and an id of no skill, and a new id starred.
C21_Witness ==
  /\ lastStar.op = "set" /\ lastStar.ok /\ lastStar.starred
  /\ Len(lastStar.pre) = 3 /\ lastStar.pre[1] = lastStar.pre[3]
  /\ lastStar.pre[2] \notin lastStar.skills
  /\ Len(lastStar.ret) = 2 /\ lastStar.ret[2] = lastStar.id
  /\ prefs = lastStar.ret

\* C22: when a starred skill is renamed or made global and the directory has
\* been moved, afterwards the new id is starred, the old id is not, and the
\* other starred ids are in the order they had.
C22_StarFollowsMove ==
  LET before == starred_skill_ids(lastStar.skills, lastStar.pre)
      after == starred_skill_ids(snapshot.skills, prefs)
      other(id) == id # lastStar.id /\ id # lastStar.new_id
  IN (lastStar.op = "move" /\ FirstIndex(before, lastStar.id) # 0) =>
       /\ FirstIndex(after, lastStar.new_id) # 0
       /\ FirstIndex(after, lastStar.id) = 0
       /\ SelectSeq(after, other) = SelectSeq(before, other)

\* The last n events of a list.
LastN(list, n) == SubSeq(list, Len(list) - n + 1, Len(list))
Min(a, b) == IF a < b THEN a ELSE b

McpRan == lastMcp.op \in {"sync", "set_enabled"} /\ lastMcp.result = "ok"
ServersAt(json, L) == IF L[2] = "root" THEN json[L[1]].root ELSE json[L[1]].proj
KeysOf(locators) == {locator_server_key(locator) : locator \in locators}

\* C25: when a run rewrites a JSON host location, the keys it removes from the
\* location's mcpServers object are exactly the keys the previous run recorded
\* for that location in the manifest and the new plan no longer has; every
\* other key of the document stays, the servers the user added included.
C25_RemovesExactlyStaleManaged ==
  McpRan =>
    \A L \in Locations :
      LET before == IF lastMcp.json[L[1]].exists THEN ServersAt(lastMcp.json, L) ELSE {}
          after == ServersAt(hostJson, L)
          stale == KeysOf(lastMcp.recorded[L]) \ KeysOf(lastMcp.plans[L])
      IN IF L \in lastMcp.rewritten
           THEN before \ after = before \cap stale
           ELSE lastMcp.json[L[1]].exists => after = before

\* C26: auto-alignment switches an entry's claude flag on only if the entry is
\* observed enabled in a claude source and no earlier run ever wrote its locator
\* to a claude JSON target: an entry managed by any prior run is not re-enabled.
C26_AlignsOnlyNeverManaged ==
  McpRan =>
    \A id \in lastMcp.aligned :
      /\ id \in lastMcp.observed
      /\ ~lastMcp.before[id].claude /\ lastMcp.cat[id].claude
      /\ id \notin lastMcp.managed

Blocks == {CentralBlock, CodexBlock, SkillsBlock}
BlocksIn(text) == {text[i] : i \in DOMAIN text} \cap Blocks
\* The run found the file with all of its managed blocks and left their contents as they were.
BlocksKept(p) ==
  /\ lastMcp.toml[p].exists
  /\ BlocksIn(hostToml[p].text) = BlocksIn(lastMcp.toml[p].text)
  /\ BlocksIn(hostToml[p].text) # {}
  /\ hostToml[p].keys = lastMcp.toml[p].keys
  /\ hostToml[p].cat = lastMcp.toml[p].cat

\* C27: a run that leaves the contents of a file's managed blocks unchanged
\* leaves every byte of the file outside the markers unchanged.
C27_OutsideMarkersByteStable ==
  McpRan => \A p \in TomlPaths : BlocksKept(p) => hostToml[p].text = lastMcp.toml[p].text

\* C28: a run writes a host config file (a codex config.toml, the central
\* catalog, a JSON host) only if what it renders for the file differs from
\* what is on disk: no write of the run hands the file the bytes it already has.
C28_WrittenOnlyWhenDifferent == McpRan => lastMcp.same = {}

\* C29: a reconciliation never creates <ws>/.mcp.json or <ws>/.codex/config.toml
\* when it does not exist, one the user deleted after an earlier run wrote to
\* it included: the file stays missing, a warning is emitted when the catalog
\* has entries for it, and the next manifest has no entry for the file.
C29_MissingWorkspaceFileSkipped ==
  McpRan =>
    /\ ~lastMcp.json["ws_mcp"].exists =>
         /\ ~hostJson["ws_mcp"].exists
         /\ ~mcpManifest["ws_mcp"].present
         /\ lastMcp.plans[<<"ws_mcp", "root">>] # {} => "ws_mcp" \in lastMcp.skipped
    /\ ~lastMcp.toml["ws_codex"].exists =>
         /\ ~hostToml["ws_codex"].exists
         /\ ~mcpManifest["ws_codex"].present
         /\ lastMcp.codex_plan # {} => "ws_codex" \in lastMcp.skipped

\* C30: after every reconciliation and every set_enabled call that went
\* through, each global entry of the central catalog has project = false; a
\* project toggle aimed at a global entry is rejected and changes nothing.
C30_GlobalNeverProject ==
  /\ McpRan => \A id \in EntryIds : id[1] = "global" => ~hostToml["central"].cat[id].project
  /\ (lastMcp.op = "set_enabled" /\ lastMcp.agent = "project"
        /\ lastMcp.result \in {"ok", "unsupported"} /\ lastMcp.id[1] = "global")
       => /\ lastMcp.result = "unsupported"
          /\ hostToml = lastMcp.toml /\ hostJson = lastMcp.json /\ mcpManifest = lastMcp.manifest
\* A project toggle on a global entry of the catalog was rejected; and a run
\* met a hand-edited catalog whose global entry said project = true.
C30_Witness ==
  \/ /\ lastMcp.op = "set_enabled" /\ lastMcp.agent = "project"
     /\ lastMcp.result = "unsupported" /\ lastMcp.id[1] = "global"
     /\ hostToml["central"].cat[lastMcp.id].present
  \/ /\ McpRan
     /\ \E id \in EntryIds : id[1] = "global" /\ lastMcp.toml["central"].cat[id].project

\* The catalog the last set_enabled call loaded, and the entries its key and
\* scope matched.
ToggleCatalog == known_for_toggle(lastMcp.json, lastMcp.toml, wsRoots)
ToggleMatches == matching_ids(ToggleCatalog, "k", lastMcp.scope)
SameBut(agent, was, now) ==
  /\ now.present = was.present /\ now.target = was.target
  /\ agent # "codex" => now.codex = was.codex
  /\ agent # "claude" => now.claude = was.claude
  /\ agent # "project" => now.project = was.project

BeginsSync(t) == pc[t] = "sync_start" /\ pc'[t] = "syncing"
BeginsMutation(t) == pc[t] = "mutate" /\ pc'[t] # "mutate"

\* C32: no reconciliation and no lifecycle mutation begins while the gate is
\* false; and when a call that set the gate to false returns, no watcher
\* thread is alive. (Stated as the spec has it; the watcher does not read the
\* gate, and the gate is written before the watcher is stopped.)
C32_NothingBeginsWhileGateFalse ==
  [][/\ \A t \in Threads : (BeginsSync(t) \/ BeginsMutation(t)) => gate
     /\ \A t \in Cmds :
          (op[t] = "disallow" /\ pc[t] # "idle" /\ pc'[t] = "idle" /\ ret'[t] = "ok") =>
             \A w \in Watchers : pc'[w] \in {"unborn", "exited"}]_vars

\* A watcher thread that runs, and the ways the runtime can reach it: through
\* the sender and handle kept in WatchRuntime, through the start_auto_watch
\* call that is about to store them, or through the stop_auto_watch call that
\* has signalled it and is joining its handle.
Alive(w) == pc[w] \notin {"unborn", "exited"}
Registered(w) == watch.active /\ watch.stop_tx = w /\ watch.handle = w
BeingRegistered(w) == \E t \in Cmds : pc[t] = "register" /\ local[t] = w
BeingJoined(w) ==
  stop_rx[w] /\ \E t \in Cmds : pc[t] \in {"join", "rollback_join"} /\ local[t] = w

WatcherSyncs(w) == pc[w] = "sync_start"
Stopped(w) == stop_rx[w] \/ pc[w] \in {"unborn", "exited"}

EventArrives == \E w \in Watchers : events'[w] /\ (~events[w] \/ last_change' # last_change)
OwnRunEnds == \E w \in Watchers : pc[w] = "syncing" /\ pc'[w] # "syncing"

C35_AutoRunsDieOut ==
  <>[][~FsEvent /\ \A t \in Cmds : pc'[t] = pc[t]]_vars
    => <>[][\A w \in Watchers : ~BeginsSync(w)]_vars

\* In the writes of the last run, every write of a comes before every write of b.
WrittenBefore(a, b) ==
  \A i, j \in DOMAIN lastRun.writes :
    (lastRun.writes[i] = a /\ lastRun.writes[j] = b) => i < j

\* C36: within one reconciliation the registry writes come before the write
\* of the state file, and the state file is written before the managed-links
\* manifests. (Stated as the spec has it; run_core_sync saves the manifests
\* before run_sync writes anything else.)
C36_RegistriesStateManifests ==
  Ran =>
    /\ WrittenBefore("codex_registry", "state")
    /\ WrittenBefore("mcp_registry", "state")
    /\ WrittenBefore("state", "skill_manifest")
    /\ WrittenBefore("state", "subagent_manifest")

\* The mirror symlinks the projector made in the last run.
CreatedLinks ==
  {p \in Loc : lastRun.mid[p].kind = "link" /\ lastRun.mid[p] # lastRun.pre[p]}

\* C37: the managed-links manifest a successful run writes lists the path of
\* every mirror symlink the projector created in that run, the link's own
\* path. (Stated as the spec has it; the engine records the canonicalized
\* path, which is where the new link points.)
C37_ManifestListsCreatedLinks ==
  Returned("ok") => \A p \in CreatedLinks : p \in manifest[KindOf(p[1])]


\* C38: a lifecycle command addressed by a key that is active in both scopes
\* is rejected and mutates nothing: it is never applied to the record that
\* comes first in the snapshot.
ActiveScopes(d, skill_key) ==
  {s.scope : s \in {q \in Snapshot(d) : q.status = "active" /\ q.skill_key = skill_key}}
KeyMeansTwo ==
  /\ lastCall.op \in SkillCommands
  /\ lastCall.skill.status = "active"
  /\ ActiveScopes(lastCall.pre, lastCall.skill.skill_key) = {"global", "project"}
C38_AmbiguousKeyRejected ==
  KeyMeansTwo => lastCall.result # "ok" /\ disk = lastCall.pre


\* C39: the starred list loses no update: when two calls (set_skill_starred,
\* or the migration of rename and make_global) on different ids have both
\* returned, the persisted list reflects each of them.
StarredNow(id) == \E i \in DOMAIN prefs : prefs[i] = id
Touched(t) == {local[t].id, local[t].new_id}
Reflected(t) ==
  CASE op[t] = "star" -> StarredNow(local[t].id)
    [] op[t] = "unstar" -> ~StarredNow(local[t].id)
    [] op[t] = "move" ->
         /\ ~StarredNow(local[t].id)
         /\ (\E i \in DOMAIN local[t].settings : local[t].settings[i] = local[t].id)
              => StarredNow(local[t].new_id)
BothReturned ==
  /\ \A t \in Cmds : pc[t] = "star_done"
  /\ \A t \in Cmds : \A q \in Cmds \ {t} : Touched(t) \cap Touched(q) = {}
  /\ \E t \in Cmds : op[t] \in {"star", "unstar"}
C39_NoLostStarUpdate ==
  BothReturned => \A t \in Cmds : Reflected(t)


\* C40: after a successful run with auto-migrate on, the elected global skill
\* is a real directory at the preferred path <root 1>/<key>, and every other
\* root where the run discovered the key holds a symlink resolving to it.
Preferred == <<"skill_global", 1>>
RanMigrating ==
  /\ lastRun.auto_migrate
  /\ lastRun.result = "ok"
  /\ lastRun.elected["skill_global"] # 0
C40_MigratedToPreferred ==
  RanMigrating =>
    /\ stateFile.skills[1].canonical_source_path = Preferred
    /\ lastRun.post[Preferred].kind = "pkg"
    /\ \A r \in discover_packages(lastRun.pre, "skill_global") \ {1} :
         /\ is_symlink(lastRun.post, <<"skill_global", r>>)
         /\ standardized_path(lastRun.post, <<"skill_global", r>>) = Preferred

====
